---------------------------- MODULE Spec2Model ----------------------------
(***************************************************************************)
(* A model of jsonschema_code_generator: the schema parser (parser.rs),    *)
(* the reference resolver (ref_parser.rs, resolver.rs), the identifier     *)
(* sanitizer (sanitizer.rs) and the Generator (generator.rs).              *)
(*                                                                         *)
(* Rust Strings and Paths are sequences of one-character strings, so that  *)
(* split, replace, case conversion and format! are computed and never      *)
(* assumed.  Option<T> is a sequence of length 0 (None) or 1 (Some).       *)
(* A HashMap is a function whose domain is the key set.  Rc<Root> is an    *)
(* index into the heap `roots`.  The recursion of add_type/add_object is   *)
(* an explicit call stack.                                                 *)
(***************************************************************************)
EXTENDS Integers, Sequences, FiniteSets, TLC

-----------------------------------------------------------------------------
(* Bounds *)

\* deepest call stack the model follows before it reports a stack overflow
MaxDepth == 22

\* number of add_file calls made on one Generator
MaxAddFileCalls == 2

-----------------------------------------------------------------------------
(* Option, HashMap, String *)

None == <<>>

Some(x) == <<x>>

IsSome(o) == Len(o) > 0

Unwrap(o) == o[1]

EmptyMap == <<>>

contains_key(map, k) == k \in DOMAIN map

insert(map, k, v) == [x \in (DOMAIN map) \cup {k} |-> IF x = k THEN v ELSE map[x]]

values(map) == {map[k] : k \in DOMAIN map}

contains(vec, x) == \E i \in 1..Len(vec) : vec[i] = x

Lowers == <<"a", "b", "c", "d", "e", "f", "g", "h", "i", "j", "k", "l", "m",
            "n", "o", "p", "q", "r", "s", "t", "u", "v", "w", "x", "y", "z">>

Uppers == <<"A", "B", "C", "D", "E", "F", "G", "H", "I", "J", "K", "L", "M",
            "N", "O", "P", "Q", "R", "S", "T", "U", "V", "W", "X", "Y", "Z">>

Digits == <<"0", "1", "2", "3", "4", "5", "6", "7", "8", "9">>

is_uppercase(c) == \E i \in 1..Len(Uppers) : Uppers[i] = c

is_lowercase(c) == \E i \in 1..Len(Lowers) : Lowers[i] = c

to_uppercase(c) ==
    IF is_lowercase(c) THEN Uppers[CHOOSE i \in 1..Len(Lowers) : Lowers[i] = c] ELSE c

to_lowercase(c) ==
    IF is_uppercase(c) THEN Lowers[CHOOSE i \in 1..Len(Uppers) : Uppers[i] = c] ELSE c

\* u64 / usize Display
RECURSIVE to_string(_)
to_string(n) ==
    IF n < 10 THEN <<Digits[n + 1]>>
    ELSE to_string(n \div 10) \o <<Digits[(n % 10) + 1]>>

\* str::split on a one-character pattern: "" gives [""], "a#" gives ["a", ""]
RECURSIVE split(_, _)
split(s, c) ==
    IF \E i \in 1..Len(s) : s[i] = c
    THEN LET i == CHOOSE i \in 1..Len(s) : s[i] = c /\ \A j \in 1..(i - 1) : s[j] # c
         IN  <<SubSeq(s, 1, i - 1)>> \o split(SubSeq(s, i + 1, Len(s)), c)
    ELSE <<s>>

\* str::replace of a one-character pattern
RECURSIVE replace(_, _, _)
replace(s, c, to) ==
    IF s = <<>> THEN <<>>
    ELSE (IF Head(s) = c THEN to ELSE <<Head(s)>>) \o replace(Tail(s), c, to)

RECURSIVE filter_non_empty(_)
filter_non_empty(parts) ==
    IF parts = <<>> THEN <<>>
    ELSE (IF Len(Head(parts)) > 0 THEN <<Head(parts)>> ELSE <<>>)
         \o filter_non_empty(Tail(parts))

RECURSIVE concat_all(_)
concat_all(parts) ==
    IF parts = <<>> THEN <<>> ELSE Head(parts) \o concat_all(Tail(parts))

starts_with(s, prefix) ==
    Len(prefix) <= Len(s) /\ SubSeq(s, 1, Len(prefix)) = prefix

ends_with(s, suffix) ==
    Len(suffix) <= Len(s) /\ SubSeq(s, Len(s) - Len(suffix) + 1, Len(s)) = suffix

\* number of (possibly overlapping) occurrences of pat in s
count_matches(s, pat) ==
    Cardinality({i \in 1..Len(s) : i + Len(pat) - 1 <= Len(s)
                                   /\ SubSeq(s, i, i + Len(pat) - 1) = pat})

S_hash == <<"#">>
S_slash == <<"/">>
S_dot == <<".">>
S_at_word == <<" ", "a", "t", " ">>
S_dollar_word == <<" ", "d", "o", "l", "l", "a", "r", " ">>
S_definitions == <<"d", "e", "f", "i", "n", "i", "t", "i", "o", "n", "s">>
S_defs == <<"$", "d", "e", "f", "s">>
S_json == <<"j", "s", "o", "n">>
S_properties == <<"p", "r", "o", "p", "e", "r", "t", "i", "e", "s">>
S_patternProperties == <<"p", "a", "t", "t", "e", "r", "n", "P", "r", "o", "p", "e", "r", "t", "i", "e", "s">>
S_items == <<"i", "t", "e", "m", "s">>
S_oneOf == <<"o", "n", "e", "O", "f">>
S_anyOf == <<"a", "n", "y", "O", "f">>
S_allOf == <<"a", "l", "l", "O", "f">>
S_Unknown == <<"U", "n", "k", "n", "o", "w", "n">>
S_Value == <<"V", "a", "l", "u", "e">>
S_bool == <<"b", "o", "o", "l">>
S_i64 == <<"i", "6", "4">>
S_f64 == <<"f", "6", "4">>
S_String == <<"S", "t", "r", "i", "n", "g">>
S_Vec_open == <<"V", "e", "c", "<">>
S_BTreeMap_open == <<"B", "T", "r", "e", "e", "M", "a", "p", "<", "S", "t", "r", "i", "n", "g", ",", " ">>
S_Option_open == <<"O", "p", "t", "i", "o", "n", "<">>
S_Box_open == <<"B", "o", "x", "<">>
S_close == <<">">>
S_underscore == <<"_">>
S_is_none == <<"O", "p", "t", "i", "o", "n", ":", ":", "i", "s", "_", "n", "o", "n", "e">>

-----------------------------------------------------------------------------
(* sanitizer.rs *)

is_word_delimiter(c) == c \in {" ", "-", "_"}

\* a word boundary lies before s[i]: lower|Upper, or Upper|Upper lower
is_camel_boundary(s, i) ==
    /\ i > 1
    /\ \/ is_lowercase(s[i - 1]) /\ is_uppercase(s[i])
       \/ /\ i < Len(s)
          /\ is_uppercase(s[i - 1]) /\ is_uppercase(s[i]) /\ is_lowercase(s[i + 1])

\* the words of s: split at " ", "-", "_" and at camel-case boundaries
RECURSIVE split_words(_, _, _)
split_words(s, i, word) ==
    IF i > Len(s) THEN (IF word = <<>> THEN <<>> ELSE <<word>>)
    ELSE IF is_word_delimiter(s[i])
         THEN (IF word = <<>> THEN <<>> ELSE <<word>>) \o split_words(s, i + 1, <<>>)
    ELSE IF is_camel_boundary(s, i) /\ word # <<>>
         THEN <<word>> \o split_words(s, i + 1, <<s[i]>>)
    ELSE split_words(s, i + 1, Append(word, s[i]))

capitalize(word) ==
    [i \in 1..Len(word) |-> IF i = 1 THEN to_uppercase(word[i]) ELSE to_lowercase(word[i])]

to_pascal_case(s) ==
    LET words == split_words(s, 1, <<>>)
    IN  concat_all([i \in 1..Len(words) |-> capitalize(words[i])])

sanitize_struct_name(name) ==
    to_pascal_case(replace(replace(name, "@", S_at_word), "$", S_dollar_word))

to_snake_case(s) ==
    LET words == split_words(s, 1, <<>>)
    IN  concat_all([i \in 1..Len(words) |->
                      (IF i = 1 THEN <<>> ELSE S_underscore)
                      \o [j \in 1..Len(words[i]) |-> to_lowercase(words[i][j])]])

\* keywords.rs: the reserved words of Rust
RUST_KEYWORDS ==
    {<<"a", "s">>, <<"b", "r", "e", "a", "k">>, <<"c", "o", "n", "s", "t">>,
     <<"c", "o", "n", "t", "i", "n", "u", "e">>, <<"c", "r", "a", "t", "e">>,
     <<"e", "l", "s", "e">>, <<"e", "n", "u", "m">>, <<"e", "x", "t", "e", "r", "n">>,
     <<"f", "a", "l", "s", "e">>, <<"f", "n">>, <<"f", "o", "r">>, <<"i", "f">>,
     <<"i", "m", "p", "l">>, <<"i", "n">>, <<"l", "e", "t">>, <<"l", "o", "o", "p">>,
     <<"m", "a", "t", "c", "h">>, <<"m", "o", "d">>, <<"m", "o", "v", "e">>,
     <<"m", "u", "t">>, <<"p", "u", "b">>, <<"r", "e", "f">>,
     <<"r", "e", "t", "u", "r", "n">>, <<"s", "e", "l", "f">>, <<"S", "e", "l", "f">>,
     <<"s", "t", "a", "t", "i", "c">>, <<"s", "t", "r", "u", "c", "t">>,
     <<"s", "u", "p", "e", "r">>, <<"t", "r", "a", "i", "t">>, <<"t", "r", "u", "e">>,
     <<"t", "y", "p", "e">>, <<"u", "n", "s", "a", "f", "e">>, <<"u", "s", "e">>,
     <<"w", "h", "e", "r", "e">>, <<"w", "h", "i", "l", "e">>,
     <<"a", "s", "y", "n", "c">>, <<"a", "w", "a", "i", "t">>, <<"d", "y", "n">>,
     <<"a", "b", "s", "t", "r", "a", "c", "t">>, <<"b", "e", "c", "o", "m", "e">>,
     <<"b", "o", "x">>, <<"d", "o">>, <<"f", "i", "n", "a", "l">>,
     <<"m", "a", "c", "r", "o">>, <<"o", "v", "e", "r", "r", "i", "d", "e">>,
     <<"p", "r", "i", "v">>, <<"t", "y", "p", "e", "o", "f">>,
     <<"u", "n", "s", "i", "z", "e", "d">>, <<"v", "i", "r", "t", "u", "a", "l">>,
     <<"y", "i", "e", "l", "d">>, <<"t", "r", "y">>}

escape_keywords(name) ==
    IF name \in RUST_KEYWORDS THEN name \o S_underscore ELSE name

\* a space before every uppercase character
RECURSIVE split_camel_case(_)
split_camel_case(name) ==
    IF name = <<>> THEN <<>>
    ELSE (IF is_uppercase(Head(name)) THEN <<" ", Head(name)>> ELSE <<Head(name)>>)
         \o split_camel_case(Tail(name))

sanitize_property_name(name) ==
    escape_keywords(
        to_snake_case(replace(replace(split_camel_case(name), "@", S_at_word),
                              "$", S_dollar_word)))

-----------------------------------------------------------------------------
(* schema.rs: a Schema is a record; a BTreeMap<String, Schema> is the       *)
(* sequence of its [key, value] entries in ascending key order.             *)

EmptySchema ==
    [ref_ |-> None, title |-> None, type_ |-> None, required |-> None,
     properties |-> <<>>, pattern_properties |-> <<>>, items |-> None,
     definitions |-> <<>>, defs |-> <<>>,
     one_of |-> <<>>, any_of |-> <<>>, all_of |-> <<>>]

Types == {"null", "boolean", "integer", "number", "string", "array", "object"}

-----------------------------------------------------------------------------
(* parser.rs: the intermediate representation (DataType::Any is AnyType) *)

PrimitiveType(p) == [kind |-> "PrimitiveType", primitive_type |-> p]

Array(items) == [kind |-> "Array", items |-> items]

Object(src, name, properties) ==
    [kind |-> "Object", src |-> src, name |-> name, properties |-> properties]

Map(data_type) == [kind |-> "Map", data_type |-> data_type]

Ref(ref_path) == [kind |-> "Ref", ref_path |-> ref_path]

OneOf(types) == [kind |-> "OneOf", types |-> types]

AnyOf(types) == [kind |-> "AnyOf", types |-> types]

AllOf(types) == [kind |-> "AllOf", types |-> types]

AnyType == [kind |-> "Any"]

ObjectProperty(name, required, data_type) ==
    [name |-> name, required |-> required, data_type |-> data_type]

Root(file, data_type, definitions) ==
    [file |-> file, data_type |-> data_type, definitions |-> definitions]

RECURSIVE parse_type(_, _, _, _)
RECURSIVE parse_array_type(_, _)
RECURSIVE parse_object_type(_, _, _, _)
RECURSIVE parse_property(_, _, _, _)

\* variant: oneOf is looked at before $ref
parse_type_one_of_first(src, schema, parent_schema, property_name) ==
    IF Len(schema.one_of) > 0
    THEN OneOf([i \in 1..Len(schema.one_of) |->
                  parse_type(src \o S_slash \o S_oneOf \o S_slash \o to_string(i - 1),
                             schema.one_of[i], Some(schema), None)])
    ELSE IF IsSome(schema.ref_) THEN Ref(Unwrap(schema.ref_))
    ELSE IF Len(schema.any_of) > 0
    THEN AnyOf([i \in 1..Len(schema.any_of) |->
                  parse_type(src \o S_slash \o S_anyOf \o S_slash \o to_string(i - 1),
                             schema.any_of[i], Some(schema), None)])
    ELSE IF Len(schema.all_of) > 0
    THEN AllOf([i \in 1..Len(schema.all_of) |->
                  parse_type(src \o S_slash \o S_allOf \o S_slash \o to_string(i - 1),
                             schema.all_of[i], Some(schema), None)])
    ELSE IF IsSome(schema.type_)
    THEN CASE Unwrap(schema.type_) = "null" -> PrimitiveType("Null")
           [] Unwrap(schema.type_) = "boolean" -> PrimitiveType("Boolean")
           [] Unwrap(schema.type_) = "integer" -> PrimitiveType("Integer")
           [] Unwrap(schema.type_) = "number" -> PrimitiveType("Number")
           [] Unwrap(schema.type_) = "string" -> PrimitiveType("String")
           [] Unwrap(schema.type_) = "array" -> parse_array_type(src, schema)
           [] Unwrap(schema.type_) = "object" ->
                IF Len(schema.pattern_properties) > 0
                THEN Map(parse_type(src \o S_slash \o S_patternProperties,
                                    schema.pattern_properties[1].value, None, None))
                ELSE IF Len(schema.properties) > 0
                     THEN parse_object_type(src, schema, parent_schema, property_name)
                     ELSE Map(AnyType)
    ELSE AnyType

\* variant: properties are looked at before patternProperties
parse_type_properties_first(src, schema, parent_schema, property_name) ==
    IF IsSome(schema.ref_) THEN Ref(Unwrap(schema.ref_))
    ELSE IF Len(schema.one_of) > 0
    THEN OneOf([i \in 1..Len(schema.one_of) |->
                  parse_type(src \o S_slash \o S_oneOf \o S_slash \o to_string(i - 1),
                             schema.one_of[i], Some(schema), None)])
    ELSE IF Len(schema.any_of) > 0
    THEN AnyOf([i \in 1..Len(schema.any_of) |->
                  parse_type(src \o S_slash \o S_anyOf \o S_slash \o to_string(i - 1),
                             schema.any_of[i], Some(schema), None)])
    ELSE IF Len(schema.all_of) > 0
    THEN AllOf([i \in 1..Len(schema.all_of) |->
                  parse_type(src \o S_slash \o S_allOf \o S_slash \o to_string(i - 1),
                             schema.all_of[i], Some(schema), None)])
    ELSE IF IsSome(schema.type_)
    THEN CASE Unwrap(schema.type_) = "null" -> PrimitiveType("Null")
           [] Unwrap(schema.type_) = "boolean" -> PrimitiveType("Boolean")
           [] Unwrap(schema.type_) = "integer" -> PrimitiveType("Integer")
           [] Unwrap(schema.type_) = "number" -> PrimitiveType("Number")
           [] Unwrap(schema.type_) = "string" -> PrimitiveType("String")
           [] Unwrap(schema.type_) = "array" -> parse_array_type(src, schema)
           [] Unwrap(schema.type_) = "object" ->
                IF Len(schema.properties) > 0
                THEN parse_object_type(src, schema, parent_schema, property_name)
                ELSE IF Len(schema.pattern_properties) > 0
                     THEN Map(parse_type(src \o S_slash \o S_patternProperties,
                                         schema.pattern_properties[1].value, None, None))
                     ELSE Map(AnyType)
    ELSE AnyType

parse_type(src, schema, parent_schema, property_name) ==
    IF IsSome(schema.ref_) THEN Ref(Unwrap(schema.ref_))
    ELSE IF Len(schema.one_of) > 0
    THEN OneOf([i \in 1..Len(schema.one_of) |->
                  parse_type(src \o S_slash \o S_oneOf \o S_slash \o to_string(i - 1),
                             schema.one_of[i], Some(schema), None)])
    ELSE IF Len(schema.any_of) > 0
    THEN AnyOf([i \in 1..Len(schema.any_of) |->
                  parse_type(src \o S_slash \o S_anyOf \o S_slash \o to_string(i - 1),
                             schema.any_of[i], Some(schema), None)])
    ELSE IF Len(schema.all_of) > 0
    THEN AllOf([i \in 1..Len(schema.all_of) |->
                  parse_type(src \o S_slash \o S_allOf \o S_slash \o to_string(i - 1),
                             schema.all_of[i], Some(schema), None)])
    ELSE IF IsSome(schema.type_)
    THEN CASE Unwrap(schema.type_) = "null" -> PrimitiveType("Null")
           [] Unwrap(schema.type_) = "boolean" -> PrimitiveType("Boolean")
           [] Unwrap(schema.type_) = "integer" -> PrimitiveType("Integer")
           [] Unwrap(schema.type_) = "number" -> PrimitiveType("Number")
           [] Unwrap(schema.type_) = "string" -> PrimitiveType("String")
           [] Unwrap(schema.type_) = "array" -> parse_array_type(src, schema)
           [] Unwrap(schema.type_) = "object" ->
                IF Len(schema.pattern_properties) > 0
                THEN Map(parse_type(src \o S_slash \o S_patternProperties,
                                    schema.pattern_properties[1].value, None, None))
                ELSE IF Len(schema.properties) > 0
                     THEN parse_object_type(src, schema, parent_schema, property_name)
                     ELSE Map(AnyType)
    ELSE AnyType

parse_array_type(src, schema) ==
    IF IsSome(schema.items)
    THEN Array(parse_type(src \o S_slash \o S_items, Unwrap(schema.items), None, None))
    ELSE Array(AnyType)

\* variant: the property name wins over the titles
parse_object_type_property_name_first(src, schema, x_of_parent, property_name) ==
    LET name ==
            IF IsSome(property_name) THEN Unwrap(property_name)
            ELSE IF IsSome(schema.title) THEN Unwrap(schema.title)
            ELSE IF IsSome(x_of_parent) /\ IsSome(Unwrap(x_of_parent).title)
                 THEN Unwrap(Unwrap(x_of_parent).title)
            ELSE S_Unknown
        own_required ==
            IF IsSome(schema.required) THEN Unwrap(schema.required) ELSE <<>>
        required_properties ==
            IF IsSome(x_of_parent) /\ IsSome(Unwrap(x_of_parent).required)
            THEN own_required \o Unwrap(Unwrap(x_of_parent).required)
            ELSE own_required
        properties ==
            [i \in 1..Len(schema.properties) |->
                parse_property(src \o S_slash \o S_properties \o S_slash
                                   \o schema.properties[i].key,
                               schema.properties[i].key,
                               schema.properties[i].value,
                               contains(required_properties, schema.properties[i].key))]
    IN  Object(src, name, properties)

\* variant: the required list of the parent is not looked at
parse_object_type_own_required_only(src, schema, x_of_parent, property_name) ==
    LET name ==
            IF IsSome(schema.title) THEN Unwrap(schema.title)
            ELSE IF IsSome(x_of_parent) /\ IsSome(Unwrap(x_of_parent).title)
                 THEN Unwrap(Unwrap(x_of_parent).title)
            ELSE IF IsSome(property_name) THEN Unwrap(property_name)
            ELSE S_Unknown
        own_required ==
            IF IsSome(schema.required) THEN Unwrap(schema.required) ELSE <<>>
        required_properties == own_required
        properties ==
            [i \in 1..Len(schema.properties) |->
                parse_property(src \o S_slash \o S_properties \o S_slash
                                   \o schema.properties[i].key,
                               schema.properties[i].key,
                               schema.properties[i].value,
                               contains(required_properties, schema.properties[i].key))]
    IN  Object(src, name, properties)

parse_object_type(src, schema, x_of_parent, property_name) ==
    LET name ==
            IF IsSome(schema.title) THEN Unwrap(schema.title)
            ELSE IF IsSome(x_of_parent) /\ IsSome(Unwrap(x_of_parent).title)
                 THEN Unwrap(Unwrap(x_of_parent).title)
            ELSE IF IsSome(property_name) THEN Unwrap(property_name)
            ELSE S_Unknown
        own_required ==
            IF IsSome(schema.required) THEN Unwrap(schema.required) ELSE <<>>
        required_properties ==
            IF IsSome(x_of_parent) /\ IsSome(Unwrap(x_of_parent).required)
            THEN own_required \o Unwrap(Unwrap(x_of_parent).required)
            ELSE own_required
        properties ==
            [i \in 1..Len(schema.properties) |->
                parse_property(src \o S_slash \o S_properties \o S_slash
                                   \o schema.properties[i].key,
                               schema.properties[i].key,
                               schema.properties[i].value,
                               contains(required_properties, schema.properties[i].key))]
    IN  Object(src, name, properties)

parse_property(src, name, schema, required) ==
    LET fallback_name == IF IsSome(schema.title) THEN Unwrap(schema.title) ELSE name
    IN  ObjectProperty(name, required, parse_type(src, schema, None, Some(fallback_name)))

\* first the $defs entries, then the definitions entries, into one HashMap
RECURSIVE insert_definitions(_, _, _, _)
insert_definitions(definitions, src, keyword, entries) ==
    IF entries = <<>> THEN definitions
    ELSE insert_definitions(
             insert(definitions, Head(entries).key,
                    parse_type(src \o S_slash \o keyword \o S_slash \o Head(entries).key,
                               Head(entries).value, None, Some(Head(entries).key))),
             src, keyword, Tail(entries))

\* variant: only the definitions keyword is read
parse_definitions_without_defs(src, schema) ==
    insert_definitions(EmptyMap, src, S_definitions, schema.definitions)

parse_definitions(src, schema) ==
    insert_definitions(insert_definitions(EmptyMap, src, S_defs, schema.defs),
                       src, S_definitions, schema.definitions)

\* json_schema is the text of a file: valid JSON that decodes to a Schema, or not
parse_from_string(file, json_schema) ==
    IF json_schema.valid
    THEN [ok |-> TRUE,
          root |-> Root(file,
                        parse_type(file, json_schema.schema, None, None),
                        parse_definitions(file, json_schema.schema))]
    ELSE [ok |-> FALSE]

-----------------------------------------------------------------------------
(* std::path as used by parser.rs, resolver.rs and generator.rs *)

\* index of the last "/" of a path, 0 if there is none
last_slash(path) ==
    IF \E i \in 1..Len(path) : path[i] = "/"
    THEN CHOOSE i \in 1..Len(path) :
             path[i] = "/" /\ \A j \in (i + 1)..Len(path) : path[j] # "/"
    ELSE 0

\* Path::parent: None for the empty path and for the root
parent(path) ==
    IF path = <<>> \/ path = S_slash THEN None
    ELSE IF last_slash(path) = 1 THEN Some(S_slash)
    ELSE Some(SubSeq(path, 1, last_slash(path) - 1))

\* Path::join: an absolute right-hand side replaces the base
join(base_path, file) ==
    IF starts_with(file, S_slash) THEN file
    ELSE IF base_path = <<>> \/ ends_with(base_path, S_slash) THEN base_path \o file
    ELSE base_path \o S_slash \o file

\* PathBuf::with_extension: replaces what follows the last "." of the file name
with_extension(path, extension) ==
    LET name_start == last_slash(path) + 1
        dots == {i \in (name_start + 1)..Len(path) : path[i] = "."}
    IN  IF dots = {} THEN path \o S_dot \o extension
        ELSE LET last_dot == CHOOSE i \in dots : \A j \in dots : j <= i
             IN  SubSeq(path, 1, last_dot) \o extension

\* fs::read_to_string and parse_from_string, for the path parse_from_file settled on
read_and_parse(files, path) ==
    IF path \in DOMAIN files THEN parse_from_string(path, files[path])
    ELSE [ok |-> FALSE]

\* files is the file system: a function from the paths that exist to their text
parse_from_file(files, file) ==
    read_and_parse(files,
                   IF file \in DOMAIN files THEN file ELSE with_extension(file, S_json))

-----------------------------------------------------------------------------
(* ref_parser.rs *)

parse_ref(full_path) ==
    LET parts == split(full_path, "#")
        file == IF parts[1] = <<>> THEN None ELSE Some(parts[1])
    IN  IF Len(parts) = 1 THEN [ok |-> TRUE, file |-> file, path |-> None]
        ELSE IF Len(parts) = 2
             THEN [ok |-> TRUE, file |-> file,
                   path |-> IF parts[2] = <<>> THEN None ELSE Some(parts[2])]
        ELSE [ok |-> FALSE]

-----------------------------------------------------------------------------
(* resolver.rs: heap is the sequence of all Roots allocated so far          *)

deref(path, root_definitions) ==
    LET parts == filter_non_empty(split(path, "/"))
    IN  IF Len(parts) = 2
        THEN IF parts[1] # S_definitions /\ parts[1] # S_defs THEN [ok |-> FALSE]
             ELSE IF contains_key(root_definitions, parts[2])
                  THEN [ok |-> TRUE, data_type |-> root_definitions[parts[2]]]
                  ELSE [ok |-> FALSE]
        ELSE [ok |-> FALSE]

\* Resolver::load, given what parse_from_file returned: allocate the Root and
\* insert it under the requested path
load_parsed(heap, resolver_cache, file, parsed) ==
    IF parsed.ok
    THEN [ok |-> TRUE,
          heap |-> Append(heap, parsed.root),
          cache |-> insert(resolver_cache, file, Len(heap) + 1),
          root |-> Len(heap) + 1]
    ELSE [ok |-> FALSE]

load(files, heap, resolver_cache, file) ==
    load_parsed(heap, resolver_cache, file, parse_from_file(files, file))

\* variant: the second half of Resolver::resolve returns the top-level data_type
\* of the target Root whatever the path
resolve_in_top_level(loaded, path) ==
    IF ~loaded.ok THEN [ok |-> FALSE]
    ELSE [ok |-> TRUE, heap |-> loaded.heap, cache |-> loaded.cache,
          root |-> loaded.root, path |-> path,
          data_type |-> loaded.heap[loaded.root].data_type]

\* the second half of Resolver::resolve: the target Root is known
resolve_in(loaded, path) ==
    IF ~loaded.ok THEN [ok |-> FALSE]
    ELSE
    LET target == loaded.heap[loaded.root]
        data_type == IF IsSome(path)
                     THEN deref(Unwrap(path), target.definitions)
                     ELSE [ok |-> TRUE, data_type |-> target.data_type]
    IN  IF ~data_type.ok THEN [ok |-> FALSE]
        ELSE [ok |-> TRUE, heap |-> loaded.heap, cache |-> loaded.cache,
              root |-> loaded.root, path |-> path,
              data_type |-> data_type.data_type]

\* the first half of Resolver::resolve: join the file part, look into the cache
resolve_ref(files, heap, resolver_cache, root, parsed_ref) ==
    IF ~parsed_ref.ok THEN [ok |-> FALSE]
    ELSE IF ~IsSome(parsed_ref.file)
    THEN resolve_in([ok |-> TRUE, heap |-> heap, cache |-> resolver_cache, root |-> root],
                    parsed_ref.path)
    ELSE IF ~IsSome(parent(heap[root].file)) THEN [ok |-> FALSE]
    ELSE LET file == join(Unwrap(parent(heap[root].file)), Unwrap(parsed_ref.file))
         IN  IF contains_key(resolver_cache, file)
             THEN resolve_in([ok |-> TRUE, heap |-> heap, cache |-> resolver_cache,
                              root |-> resolver_cache[file]],
                             parsed_ref.path)
             ELSE resolve_in(load(files, heap, resolver_cache, file), parsed_ref.path)

\* Resolver::resolve: root is the Rc of the current Root
resolve(files, heap, resolver_cache, root, ref_path) ==
    resolve_ref(files, heap, resolver_cache, root, parse_ref(ref_path))

-----------------------------------------------------------------------------
(* generator.rs: pure parts *)

\* the while loop of get_collision_free_name
RECURSIVE collision_loop(_, _, _, _)
collision_loop(names, name, new_name, counter) ==
    IF \E src \in DOMAIN names : names[src] = new_name
    THEN collision_loop(names, name, name \o to_string(counter), counter + 1)
    ELSE new_name

\* variant: get_collision_free_name without its loop
get_collision_free_name_unchecked(names, name) == name

\* variant: get_collision_free_name with a counter that starts at 0
get_collision_free_name_from_zero(names, name) == collision_loop(names, name, name, 0)

get_collision_free_name(names, name) == collision_loop(names, name, name, 1)

GeneratedType(src, name, properties) ==
    [src |-> src, name |-> name, properties |-> properties]

EntryWithPosition(position, payload) == [position |-> position, payload |-> payload]

\* variant: Integer and Number are exchanged
primitive_type_name_exchanged(primitive_type) ==
    CASE primitive_type = "Null" -> S_Value
      [] primitive_type = "Boolean" -> S_bool
      [] primitive_type = "Integer" -> S_f64
      [] primitive_type = "Number" -> S_i64
      [] primitive_type = "String" -> S_String

\* the primitive arm of add_type
primitive_type_name(primitive_type) ==
    CASE primitive_type = "Null" -> S_Value
      [] primitive_type = "Boolean" -> S_bool
      [] primitive_type = "Integer" -> S_i64
      [] primitive_type = "Number" -> S_f64
      [] primitive_type = "String" -> S_String

\* variant: the final match of add_type never wraps
wrap_required_never(required, type_name) == type_name

\* the final match of add_type
wrap_required(required, type_name) ==
    IF required THEN type_name ELSE S_Option_open \o type_name \o S_close

\* the final match of add_object
wrap_cycle(cycle_detected, name) ==
    IF cycle_detected THEN S_Box_open \o name \o S_close ELSE name

\* Vec::sort on EntryWithPosition (stable, compares position only)
RECURSIVE sort_insert(_, _)
sort_insert(sorted, entry) ==
    IF sorted = <<>> THEN <<entry>>
    ELSE IF sorted[Len(sorted)].position <= entry.position THEN Append(sorted, entry)
    ELSE Append(sort_insert(SubSeq(sorted, 1, Len(sorted) - 1), entry), sorted[Len(sorted)])

RECURSIVE sort(_)
sort(vec) ==
    IF vec = <<>> THEN <<>>
    ELSE sort_insert(sort(SubSeq(vec, 1, Len(vec) - 1)), vec[Len(vec)])

\* the iteration orders a HashMap with this key set can have
IterationOrders(map) ==
    {order \in [1..Cardinality(DOMAIN map) -> DOMAIN map] :
        \A i, j \in 1..Cardinality(DOMAIN map) : order[i] = order[j] => i = j}

\* variant: the collected entries are sorted, then reversed
into_vec_reversed(map, order) ==
    LET collected == [i \in 1..Len(order) |-> map[order[i]]]
        sorted == sort(collected)
    IN  [i \in 1..Len(sorted) |-> sorted[Len(sorted) + 1 - i].payload]

\* variant: the collected entries are not sorted
into_vec_unsorted(map, order) ==
    [i \in 1..Len(order) |-> map[order[i]].payload]

\* Into<Vec<GeneratedType>>: collect in hash order, sort, drop the positions
into_vec(map, order) ==
    LET collected == [i \in 1..Len(order) |-> map[order[i]]]
        sorted == sort(collected)
    IN  [i \in 1..Len(sorted) |-> sorted[i].payload]

-----------------------------------------------------------------------------
(* The inputs: file systems of schema files in one directory d               *)

P_l1 == <<"d", "/", "l", "1", ".", "j", "s", "o", "n">>
P_l2 == <<"d", "/", "l", "2", ".", "j", "s", "o", "n">>

\* the paths add_file is called with
EntryPaths == {P_l1, P_l2}

N_a == <<"a">>
N_b == <<"b">>
N_c == <<"c">>
N_foo == <<"f", "o", "o">>
N_pattern == <<".", "*">>

T_A == <<"A">>
T_A1 == <<"A", "1">>
T_lower_a == <<"a">>
T_Loop == <<"L", "o", "o", "p">>
T_at_type == <<"@", "t", "y", "p", "e">>

R_b == <<"#", "/", "d", "e", "f", "i", "n", "i", "t", "i", "o", "n", "s", "/", "b">>
R_b_defs == <<"#", "/", "$", "d", "e", "f", "s", "/", "b">>
R_c == <<"#", "/", "d", "e", "f", "i", "n", "i", "t", "i", "o", "n", "s", "/", "c">>
R_c_defs == <<"#", "/", "$", "d", "e", "f", "s", "/", "c">>
R_root == <<"#">>
R_l1 == <<"l", "1", ".", "j", "s", "o", "n">>
R_l1_b == <<"l", "1", ".", "j", "s", "o", "n", "#", "/", "d", "e", "f", "i", "n", "i", "t", "i", "o", "n", "s", "/", "b">>
R_l1_c == <<"l", "1", ".", "j", "s", "o", "n", "#", "/", "d", "e", "f", "i", "n", "i", "t", "i", "o", "n", "s", "/", "c">>
R_l1_c_short == <<"l", "1", "#", "/", "d", "e", "f", "i", "n", "i", "t", "i", "o", "n", "s", "/", "c">>
R_l2_c == <<"l", "2", ".", "j", "s", "o", "n", "#", "/", "d", "e", "f", "i", "n", "i", "t", "i", "o", "n", "s", "/", "c">>
R_missing_definition == <<"#", "/", "d", "e", "f", "i", "n", "i", "t", "i", "o", "n", "s", "/", "x">>
R_missing_file == <<"l", "3", ".", "j", "s", "o", "n">>
R_two_hashes == <<"#", "/", "d", "e", "f", "i", "n", "i", "t", "i", "o", "n", "s", "/", "b", "#">>
R_nested_path == <<"#", "/", "d", "e", "f", "i", "n", "i", "t", "i", "o", "n", "s", "/", "b", "/", "p", "r", "o", "p", "e", "r", "t", "i", "e", "s", "/", "f", "o", "o">>
R_wrong_keyword == <<"#", "/", "p", "r", "o", "p", "e", "r", "t", "i", "e", "s", "/", "a">>

Entry(key, value) == [key |-> key, value |-> value]

S_ref(ref_path) == [EmptySchema EXCEPT !.ref_ = Some(ref_path)]

S_type(type_) == [EmptySchema EXCEPT !.type_ = Some(type_)]

S_object(title, properties, required) ==
    [EmptySchema EXCEPT !.type_ = Some("object"), !.title = title,
                        !.properties = properties, !.required = required]

S_array(items) == [EmptySchema EXCEPT !.type_ = Some("array"), !.items = Some(items)]

S_map(value) ==
    [EmptySchema EXCEPT !.type_ = Some("object"),
                        !.pattern_properties = <<Entry(N_pattern, value)>>]

S_one_of(alternatives) == [EmptySchema EXCEPT !.one_of = alternatives]

S_any_of(alternatives) == [EmptySchema EXCEPT !.any_of = alternatives]

S_all_of(alternatives) == [EmptySchema EXCEPT !.all_of = alternatives]

\* an object with the single property foo
S_holder(title, schema) == S_object(title, <<Entry(N_foo, schema)>>, None)

Text(schema) == [valid |-> TRUE, schema |-> schema]

InvalidText == [valid |-> FALSE]

FileSystem(l1, l2) == (P_l1 :> l1) @@ (P_l2 :> l2)

OnlyL1(l1) == (P_l1 :> l1)

Wrappers == {"direct", "array", "map", "oneOf"}

Wrap(wrapper, schema) ==
    CASE wrapper = "direct" -> schema
      [] wrapper = "array" -> S_array(schema)
      [] wrapper = "map" -> S_map(schema)
      [] wrapper = "oneOf" -> S_one_of(<<schema>>)

\* l1: Loop.a -> definition b; l2: definition c.  The definitions vary: objects
\* whose property is a (wrapped) reference, or no object at all.
CycleDefinitionsB ==
    {S_object(None, <<Entry(N_c, Wrap(w, S_ref(r)))>>, None) :
        w \in Wrappers, r \in {R_l2_c, R_b, R_root}}
    \cup {S_ref(R_l2_c), S_array(S_ref(R_b)), S_any_of(<<S_ref(R_b)>>)}

CycleDefinitionsC ==
    {S_object(None, <<Entry(N_b, Wrap(w, S_ref(R_l1_b)))>>, None) : w \in {"direct", "array"}}
    \cup {S_ref(R_l1_b), S_type("string")}

CycleWorlds ==
    {FileSystem(
        Text([S_object(Some(T_Loop), <<Entry(N_a, S_ref(R_b))>>, None)
                 EXCEPT !.definitions = <<Entry(N_b, b)>>]),
        Text([EmptySchema EXCEPT !.definitions = <<Entry(N_c, c)>>])) :
        b \in CycleDefinitionsB, c \in CycleDefinitionsC}

\* l1: three inline objects whose titles sanitize to clashing names
CollisionWorlds ==
    {OnlyL1(Text(S_object(t0,
                          <<Entry(N_a, S_holder(ta, EmptySchema)),
                            Entry(N_b, S_holder(tb, EmptySchema)),
                            Entry(N_c, S_holder(tc, EmptySchema))>>,
                          None))) :
        t0 \in {None, Some(T_A)},
        ta \in {Some(T_A), Some(T_A1), Some(T_lower_a)},
        tb \in {Some(T_A), Some(T_A1), None},
        tc \in {Some(T_A), Some(T_at_type)}}

\* l1: two properties that refer to one definition c, by several reference texts;
\* c is declared under definitions or under $defs
TwiceRefs == {R_c, R_c_defs, R_l1_c, R_l1_c_short, R_l2_c}

TwiceWorlds ==
    {FileSystem(
        Text([S_object(None, <<Entry(N_a, S_ref(r1)), Entry(N_b, S_ref(r2))>>, None)
                 EXCEPT !.definitions = IF under_defs THEN <<>> ELSE c,
                        !.defs = IF under_defs THEN c ELSE <<>>]),
        Text([EmptySchema EXCEPT !.definitions = c])) :
        r1 \in TwiceRefs, r2 \in TwiceRefs, under_defs \in BOOLEAN,
        c \in {<<Entry(N_c, S_holder(None, EmptySchema))>>}}

\* l1: one property of every kind of DataType, required or not
KindSchemas ==
    {S_type(type_) : type_ \in Types}
    \cup {EmptySchema,
          S_array(S_type("string")), S_array(S_array(EmptySchema)),
          S_array(S_holder(None, S_type("integer"))),
          S_map(S_type("number")), S_map(S_array(S_type("boolean"))),
          S_holder(Some(T_A), S_type("null")),
          S_holder(None, S_holder(None, S_type("string"))),
          S_ref(R_b), S_ref(R_l1), S_ref(R_c),
          S_one_of(<<S_type("string"), S_holder(None, EmptySchema)>>),
          S_any_of(<<S_ref(R_b)>>),
          S_any_of(<<S_type("integer"), S_holder(None, S_holder(None, S_ref(R_b)))>>),
          S_all_of(<<S_array(S_holder(Some(T_A), EmptySchema))>>)}

KindWorlds ==
    {OnlyL1(Text([S_object(None, <<Entry(N_a, schema)>>, required)
                     EXCEPT !.definitions = <<Entry(N_b, S_holder(None, S_ref(R_b))),
                                              Entry(N_c, S_array(S_type("string")))>>])) :
        schema \in KindSchemas, required \in {None, Some(<<N_a>>)}}

\* l1: a root that is no object
RootWorlds ==
    {OnlyL1(Text(schema)) :
        schema \in {S_type("string"), S_type("integer"), EmptySchema,
                    S_array(S_holder(None, EmptySchema)), S_ref(R_root)}}

\* l1: references that cannot be resolved, and files that cannot be read
ErrorWorlds ==
    {OnlyL1(Text([S_object(None, <<Entry(N_a, S_holder(None, EmptySchema)),
                                   Entry(N_b, S_ref(r))>>, None)
                     EXCEPT !.definitions = <<Entry(N_b, S_holder(None, S_ref(R_b)))>>])) :
        r \in {R_missing_definition, R_missing_file, R_two_hashes, R_nested_path,
               R_wrong_keyword}}
    \cup {OnlyL1(InvalidText),
          FileSystem(Text(S_holder(None, S_ref(R_l2_c))), InvalidText)}

R_no_slash == <<"#", "d", "e", "f", "i", "n", "i", "t", "i", "o", "n", "s", "/", "b">>
R_double_slash == <<"#", "/", "/", "d", "e", "f", "i", "n", "i", "t", "i", "o", "n", "s", "/", "/", "b", "/">>
R_empty == <<>>
R_single_segment == <<"#", "/", "b">>
R_no_name == <<"#", "/", "d", "e", "f", "i", "n", "i", "t", "i", "o", "n", "s", "/">>

\* l1: references whose local part is not written /definitions/NAME or /$defs/NAME
PointerWorlds ==
    {OnlyL1(Text([S_object(None, <<Entry(N_a, S_ref(r))>>, None)
                     EXCEPT !.definitions = <<Entry(N_b, S_holder(None, S_type("string")))>>])) :
        r \in {R_no_slash, R_double_slash, R_single_segment, R_no_name, R_b, R_b_defs,
               R_empty}}

N_at_id == <<"@", "i", "d">>
N_fooBar == <<"f", "o", "o", "B", "a", "r">>
N_type == <<"t", "y", "p", "e">>

\* l1: an object whose property names need sanitizing or not, required or not
PropertyWorlds ==
    {OnlyL1(Text(S_object(None,
                          <<Entry(N_at_id, S_type("string")),
                            Entry(N_foo, schema),
                            Entry(N_fooBar, S_type("integer")),
                            Entry(N_type, schema)>>,
                          required))) :
        schema \in {S_type("boolean"), S_array(EmptySchema), S_holder(None, EmptySchema)},
        required \in {None, Some(<<N_foo, N_fooBar>>), Some(<<N_at_id, N_type>>)}}

\* a schema that carries any of $ref, oneOf, anyOf, allOf and type at once, and
\* properties in every case
MixedSchemas ==
    {[EmptySchema EXCEPT
         !.ref_ = IF has_ref THEN Some(R_b) ELSE None,
         !.one_of = IF has_one_of THEN <<S_type("string")>> ELSE <<>>,
         !.any_of = IF has_any_of THEN <<S_type("integer"), S_type("null")>> ELSE <<>>,
         !.all_of = IF has_all_of THEN <<S_type("boolean")>> ELSE <<>>,
         !.type_ = type_,
         !.properties = <<Entry(N_foo, S_type("string"))>>] :
        has_ref \in BOOLEAN, has_one_of \in BOOLEAN, has_any_of \in BOOLEAN,
        has_all_of \in BOOLEAN, type_ \in {None, Some("number"), Some("object")}}

\* l1: a property that carries several keywords, and a definition that
\* carries the same keywords but $ref
MixedWorlds ==
    {OnlyL1(Text([S_object(None, <<Entry(N_a, schema)>>, None)
                     EXCEPT !.definitions = <<Entry(N_b, S_holder(None, S_type("string")))>>,
                            !.defs = <<Entry(N_c, [schema EXCEPT !.ref_ = None])>>])) :
        schema \in MixedSchemas}

N_pattern_a == <<"^", "a">>

\* l1: objects with and without patternProperties and properties, arrays with
\* and without items, and schemas that have these keywords but no type
ShapeWorlds ==
    {OnlyL1(Text(S_object(None,
        <<Entry(N_a, [S_type("object") EXCEPT
                         !.pattern_properties = <<Entry(N_pattern, first),
                                                  Entry(N_pattern_a, S_type("integer"))>>,
                         !.properties = properties]),
          Entry(N_b, [EmptySchema EXCEPT
                         !.properties = <<Entry(N_foo, S_type("string"))>>,
                         !.pattern_properties = <<Entry(N_pattern, first)>>,
                         !.items = Some(first)]),
          Entry(N_c, [S_type("array") EXCEPT !.properties = properties]),
          Entry(N_foo, [S_type("object") EXCEPT !.items = Some(first)])>>,
        None))) :
        first \in {S_type("string"), EmptySchema, S_array(S_type("boolean")),
                   S_holder(None, S_type("null")), S_type("object")},
        properties \in {<<>>, <<Entry(N_a, S_type("integer")), Entry(N_b, S_type("array"))>>}}

Compose(keyword, title, alternatives) ==
    CASE keyword = "oneOf" -> [S_one_of(alternatives) EXCEPT !.title = title]
      [] keyword = "anyOf" -> [S_any_of(alternatives) EXCEPT !.title = title]
      [] keyword = "allOf" -> [S_all_of(alternatives) EXCEPT !.title = title]

\* l1: objects with and without a title as the root, as a property, as a
\* definition, as the items of an array and as alternatives of a composition
\* that has a title or none; and a root that is such a composition
TitleWorlds ==
    {OnlyL1(Text([S_object(t0,
                           <<Entry(N_a, S_holder(ta, S_type("string"))),
                             Entry(N_b, Compose(keyword, tc,
                                                <<S_holder(tb, S_type("integer")),
                                                  S_holder(Some(T_A1), S_type("null")),
                                                  S_type("string")>>)),
                             Entry(N_c, S_array(S_holder(None, S_type("boolean"))))>>,
                           None)
                     EXCEPT !.definitions = <<Entry(N_b, S_holder(ta, S_type("number")))>>])) :
        t0 \in {None, Some(T_A)}, ta \in {None, Some(T_A)}, tb \in {None, Some(T_lower_a)},
        tc \in {None, Some(T_Loop)}, keyword \in {"oneOf", "anyOf", "allOf"}}
    \cup
    {OnlyL1(Text(Compose(keyword, tc, <<S_holder(tb, S_type("integer")),
                                        S_holder(None, Compose("oneOf", None,
                                            <<S_holder(None, S_type("string"))>>))>>))) :
        tb \in {None, Some(T_lower_a)}, tc \in {None, Some(T_Loop)},
        keyword \in {"oneOf", "anyOf", "allOf"}}

\* l1: a composition with a required list or none, whose alternatives are
\* objects with a required list of their own or none and with an object inside
RequiredLists == {None, Some(<<N_foo>>), Some(<<N_a>>), Some(<<N_a, N_b>>)}

RequiredWorlds ==
    {OnlyL1(Text([Compose(keyword, None,
                          <<S_object(None,
                                     <<Entry(N_a, S_type("string")),
                                       Entry(N_b, S_object(None,
                                                           <<Entry(N_a, S_type("integer")),
                                                             Entry(N_foo, S_type("null"))>>,
                                                           nested)),
                                       Entry(N_foo, S_type("boolean"))>>,
                                     own),
                            S_type("string")>>)
                     EXCEPT !.required = of_composition])) :
        keyword \in {"oneOf", "anyOf", "allOf"}, of_composition \in RequiredLists,
        own \in RequiredLists, nested \in {None, Some(<<N_a>>)}}

\* l1: three references, written with definitions or with $defs, to a name c
\* declared under both keywords and to a name b declared under one of them
DefsWorlds ==
    {OnlyL1(Text([S_object(None, <<Entry(N_a, S_ref(r1)), Entry(N_b, S_ref(r2)),
                                   Entry(N_c, S_ref(r3))>>, None)
                     EXCEPT !.definitions =
                                IF b_under_defs
                                THEN <<Entry(N_c, S_holder(None, S_type("string")))>>
                                ELSE <<Entry(N_b, S_holder(Some(T_A), S_type("integer"))),
                                       Entry(N_c, S_holder(None, S_type("string")))>>,
                            !.defs =
                                IF b_under_defs
                                THEN <<Entry(N_b, S_holder(Some(T_A), S_type("integer"))),
                                       Entry(N_c, S_array(S_type("boolean")))>>
                                ELSE <<Entry(N_c, S_array(S_type("boolean")))>>])) :
        r1 \in {R_c, R_c_defs}, r2 \in {R_c, R_c_defs}, r3 \in {R_b, R_b_defs},
        b_under_defs \in BOOLEAN}

R_l2 == <<"l", "2", ".", "j", "s", "o", "n">>
R_l2_b == <<"l", "2", ".", "j", "s", "o", "n", "#", "/", "d", "e", "f", "i", "n", "i", "t", "i", "o", "n", "s", "/", "b">>

\* l1 and l2: both have the reference #/definitions/c and a definition c; the
\* definition b of l1 is an array of objects, an object of c has an object inside
SrcWorlds ==
    {FileSystem(
        Text([S_object(None, <<Entry(N_a, S_ref(R_c)), Entry(N_b, S_ref(r1)),
                               Entry(N_c, S_ref(r2))>>, None)
                 EXCEPT !.definitions =
                            <<Entry(N_b, S_array(S_array(S_holder(None, S_type("string"))))),
                              Entry(N_c, S_holder(None, S_holder(None, S_type("integer"))))>>]),
        Text([S_holder(Some(T_A), S_ref(R_c))
                 EXCEPT !.definitions =
                            <<Entry(N_b, S_object(None, <<Entry(N_c, S_ref(R_c))>>, None)),
                              Entry(N_c, S_holder(None, S_type("boolean")))>>])) :
        r1 \in {R_b, R_l2_b}, r2 \in {R_c, R_l2, R_l2_b, R_b}}

\* l1: a root object that refers to itself directly, from the items of an
\* array and from the values of a map
SelfWorlds ==
    {OnlyL1(Text(S_object(title,
                          <<Entry(N_a, S_array(S_ref(r))),
                            Entry(N_b, S_ref(r)),
                            Entry(N_c, S_map(S_ref(r)))>>,
                          required))) :
        title \in {None, Some(T_A)}, r \in {R_root, R_l1},
        required \in {None, Some(<<N_a, N_b, N_c>>)}}

Worlds ==
    SelfWorlds \cup SrcWorlds \cup DefsWorlds \cup RequiredWorlds \cup TitleWorlds \cup ShapeWorlds \cup CycleWorlds \cup CollisionWorlds \cup TwiceWorlds \cup KindWorlds
    \cup RootWorlds \cup ErrorWorlds \cup PropertyWorlds \cup PointerWorlds
    \cup MixedWorlds

-----------------------------------------------------------------------------
(* The Generator as a state machine *)

VARIABLES
    files,              \* the file system: path -> text of the file
    roots,              \* heap of the Roots created by parse_from_file (Rc<Root>)
    cache,              \* Resolver::cache: path -> Rc<Root>
    types,              \* Generator::types: src -> EntryWithPosition
    next_position,      \* Generator::next_position
    known_type_names,   \* Generator::known_type_names: src -> name
    stack,              \* the call stack of add_type / add_object
    ret,                \* the value the last finished call returned, until consumed
    phase,              \* "idle", "running", "panicked", "overflow", "finished"
    calls,              \* number of add_file calls so far
    output,             \* the Vec<GeneratedType> of Into, once finished
    last,               \* history: the call that returned last
    first_seen,         \* history: src, raw name and Object of the objects, in the
                        \* order add_object first met them
    ref_sites           \* history: what each resolved reference pointed at and returned

vars == <<files, roots, cache, types, next_position, known_type_names,
          stack, ret, phase, calls, output, last, first_seen, ref_sites>>

\* a frame of add_type(base_path, root, src_override, data_type, required, visited_objects)
TypeFrame(root, src_override, data_type, required, visited_objects) ==
    [fn |-> "add_type", pc |-> "start", root |-> root,
     src_override |-> src_override, src |-> <<>>,
     data_type |-> data_type, required |-> required,
     visited_objects |-> visited_objects, cycle_detected |-> FALSE,
     position |-> 0, name |-> <<>>, new_properties |-> <<>>, i |-> 0,
     target |-> None]

\* a frame of add_object(base_path, root, src, object, visited_objects)
ObjectFrame(root, src, object, visited_objects) ==
    [fn |-> "add_object", pc |-> "start", root |-> root,
     src_override |-> None, src |-> src,
     data_type |-> object, required |-> TRUE,
     visited_objects |-> visited_objects, cycle_detected |-> FALSE,
     position |-> 0, name |-> <<>>, new_properties |-> <<>>, i |-> 0,
     target |-> None]

\* the local visited_objects of add_object once src is registered: the parameter,
\* cleared if it held src, with src pushed
local_visited_objects(f) ==
    Append(IF f.cycle_detected THEN <<>> ELSE f.visited_objects, f.src)

NoCall == [fn |-> "none"]

Top == stack[Len(stack)]

Running == phase = "running" /\ Len(stack) > 0

\* the srcs of the add_object calls below the top frame that are building a record
BuildingBelow ==
    {stack[k].src : k \in {j \in 1..(Len(stack) - 1) :
                              stack[j].fn = "add_object" /\ stack[j].pc # "start"}}

\* the top frame calls callee and waits for its result
Call(caller, callee) ==
    /\ Len(stack) < MaxDepth
    /\ stack' = Append([stack EXCEPT ![Len(stack)] = caller], callee)
    /\ ret' = None
    /\ phase' = phase

\* the top frame returns value to its caller
Return(value, record) ==
    /\ stack' = SubSeq(stack, 1, Len(stack) - 1)
    /\ ret' = Some(value)
    /\ phase' = IF Len(stack) = 1 THEN "idle" ELSE phase
    /\ last' = record

TypeReturned(f, type_name, argument) ==
    [fn |-> "add_type", kind |-> f.data_type.kind, data_type |-> f.data_type,
     required |-> f.required, src |-> f.src, src_override |-> f.src_override,
     visited_objects |-> f.visited_objects, argument |-> argument,
     type_name |-> type_name, value |-> wrap_required(f.required, type_name),
     depth |-> Len(stack)]

\* the kinds of the add_type calls between the top frame and the add_object call
\* below it that is building the record of src
KindsAbove(src) ==
    {stack[k].data_type.kind :
        k \in {j \in 1..(Len(stack) - 1) :
                  /\ stack[j].fn = "add_type"
                  /\ \E a \in 1..(j - 1) : /\ stack[a].fn = "add_object"
                                           /\ stack[a].pc # "start"
                                           /\ stack[a].src = src}}

ObjectReturned(f, cycle_detected, name, created) ==
    [fn |-> "add_object", src |-> f.src, visited_objects |-> f.visited_objects,
     cycle_detected |-> cycle_detected, name |-> name, created |-> created,
     building |-> BuildingBelow, through |-> KindsAbove(f.src),
     value |-> wrap_cycle(cycle_detected, name),
     depth |-> Len(stack)]

Init ==
    /\ files \in Worlds
    /\ roots = <<>>
    /\ cache = EmptyMap
    /\ types = EmptyMap
    /\ next_position = 0
    /\ known_type_names = EmptyMap
    /\ stack = <<>>
    /\ ret = None
    /\ phase = "idle"
    /\ calls = 0
    /\ output = <<>>
    /\ last = NoCall
    /\ first_seen = <<>>
    /\ ref_sites = {}

\* variant: add_file returns normally when the file cannot be read or parsed
AddFileParsed_ignoring_errors(path, parsed) ==
    /\ phase = "idle"
    /\ calls < MaxAddFileCalls
    /\ calls' = calls + 1
    /\ IF IsSome(parent(path)) /\ parsed.ok
       THEN /\ roots' = Append(roots, parsed.root)
            /\ stack' = <<TypeFrame(Len(roots) + 1, None, parsed.root.data_type,
                                    FALSE, <<>>)>>
            /\ phase' = "running"
       ELSE /\ phase' = "idle"
            /\ UNCHANGED <<roots, stack>>
    /\ ret' = None
    /\ UNCHANGED <<files, cache, types, next_position, known_type_names,
                   output, last, first_seen, ref_sites>>

\* Generator::add_file, given what parse_from_file returned, up to the call of
\* add_type made by add
AddFileParsed(path, parsed) ==
    /\ phase = "idle"
    /\ calls < MaxAddFileCalls
    /\ calls' = calls + 1
    /\ IF IsSome(parent(path)) /\ parsed.ok
       THEN /\ roots' = Append(roots, parsed.root)
            /\ stack' = <<TypeFrame(Len(roots) + 1, None, parsed.root.data_type,
                                    FALSE, <<>>)>>
            /\ phase' = "running"
       ELSE /\ phase' = "panicked"
            /\ UNCHANGED <<roots, stack>>
    /\ ret' = None
    /\ UNCHANGED <<files, cache, types, next_position, known_type_names,
                   output, last, first_seen, ref_sites>>

AddFile(path) == AddFileParsed(path, parse_from_file(files, path))

\* add_type on PrimitiveType and Any
AddTypeLeaf ==
    /\ Running
    /\ Top.fn = "add_type" /\ Top.pc = "start"
    /\ Top.data_type.kind \in {"PrimitiveType", "Any"}
    /\ LET type_name == IF Top.data_type.kind = "Any" THEN S_Value
                        ELSE primitive_type_name(Top.data_type.primitive_type)
       IN  Return(wrap_required(Top.required, type_name),
                  TypeReturned(Top, type_name, None))
    /\ UNCHANGED <<files, roots, cache, types, next_position, known_type_names,
                   calls, output, first_seen, ref_sites>>

\* variant: the items of an Array are added with the visited_objects of the caller
AddTypeArray_keeping_visited_objects ==
    /\ Running
    /\ Top.fn = "add_type" /\ Top.pc = "start"
    /\ Top.data_type.kind = "Array"
    /\ Call([Top EXCEPT !.pc = "wait"],
            TypeFrame(Top.root, Top.src_override, Top.data_type.items, TRUE,
                      Top.visited_objects))
    /\ UNCHANGED <<files, roots, cache, types, next_position, known_type_names,
                   calls, output, last, first_seen, ref_sites>>

\* add_type on Array: the items are added with the src_override, required, unvisited
AddTypeArray ==
    /\ Running
    /\ Top.fn = "add_type" /\ Top.pc = "start"
    /\ Top.data_type.kind = "Array"
    /\ Call([Top EXCEPT !.pc = "wait"],
            TypeFrame(Top.root, Top.src_override, Top.data_type.items, TRUE, <<>>))
    /\ UNCHANGED <<files, roots, cache, types, next_position, known_type_names,
                   calls, output, last, first_seen, ref_sites>>

\* variant: the values of a Map are added with the required flag of the Map
AddTypeMap_passing_required ==
    /\ Running
    /\ Top.fn = "add_type" /\ Top.pc = "start"
    /\ Top.data_type.kind = "Map"
    /\ Call([Top EXCEPT !.pc = "wait"],
            TypeFrame(Top.root, None, Top.data_type.data_type, Top.required, <<>>))
    /\ UNCHANGED <<files, roots, cache, types, next_position, known_type_names,
                   calls, output, last, first_seen, ref_sites>>

\* variant: the values of a Map are added with the visited_objects of the caller
AddTypeMap_keeping_visited_objects ==
    /\ Running
    /\ Top.fn = "add_type" /\ Top.pc = "start"
    /\ Top.data_type.kind = "Map"
    /\ Call([Top EXCEPT !.pc = "wait"],
            TypeFrame(Top.root, None, Top.data_type.data_type, TRUE, Top.visited_objects))
    /\ UNCHANGED <<files, roots, cache, types, next_position, known_type_names,
                   calls, output, last, first_seen, ref_sites>>

\* variant: add_type on Map returns a map of Value and leaves the values alone
AddTypeMap_without_values ==
    /\ Running
    /\ Top.fn = "add_type" /\ Top.pc = "start"
    /\ Top.data_type.kind = "Map"
    /\ Return(wrap_required(Top.required, S_BTreeMap_open \o S_Value \o S_close),
              TypeReturned(Top, S_BTreeMap_open \o S_Value \o S_close, None))
    /\ UNCHANGED <<files, roots, cache, types, next_position, known_type_names,
                   calls, output, first_seen, ref_sites>>

\* add_type on Map: the values are added without src_override, required, unvisited
AddTypeMap ==
    /\ Running
    /\ Top.fn = "add_type" /\ Top.pc = "start"
    /\ Top.data_type.kind = "Map"
    /\ Call([Top EXCEPT !.pc = "wait"],
            TypeFrame(Top.root, None, Top.data_type.data_type, TRUE, <<>>))
    /\ UNCHANGED <<files, roots, cache, types, next_position, known_type_names,
                   calls, output, last, first_seen, ref_sites>>

\* variant: add_object is always called with the src of the object itself
AddTypeObject_without_src_override ==
    /\ Running
    /\ Top.fn = "add_type" /\ Top.pc = "start"
    /\ Top.data_type.kind = "Object"
    /\ Call([Top EXCEPT !.pc = "wait"],
            ObjectFrame(Top.root, Top.data_type.src, Top.data_type, Top.visited_objects))
    /\ UNCHANGED <<files, roots, cache, types, next_position, known_type_names,
                   calls, output, last, first_seen, ref_sites>>

\* add_type on Object: call add_object with src_override.unwrap_or(object.src)
AddTypeObject ==
    /\ Running
    /\ Top.fn = "add_type" /\ Top.pc = "start"
    /\ Top.data_type.kind = "Object"
    /\ Call([Top EXCEPT !.pc = "wait"],
            ObjectFrame(Top.root,
                        IF IsSome(Top.src_override) THEN Unwrap(Top.src_override)
                        ELSE Top.data_type.src,
                        Top.data_type, Top.visited_objects))
    /\ UNCHANGED <<files, roots, cache, types, next_position, known_type_names,
                   calls, output, last, first_seen, ref_sites>>

\* variant: the src the Ref arm of add_type hands on is the file
ref_src_without_path(file, path) == file

\* the src the Ref arm of add_type hands on: file, or file#path
ref_src(file, path) ==
    IF IsSome(path) THEN file \o S_hash \o Unwrap(path) ELSE file

\* add_type on Ref, given what resolve returned: add the target under the src
\* of the reference
AddTypeResolved(resolved) ==
    /\ Running
    /\ Top.fn = "add_type" /\ Top.pc = "start"
    /\ Top.data_type.kind = "Ref"
    /\ Len(stack) < MaxDepth
    /\ IF resolved.ok
       THEN /\ roots' = resolved.heap
            /\ cache' = resolved.cache
            /\ Call([Top EXCEPT !.pc = "wait",
                                !.src = ref_src(resolved.heap[resolved.root].file,
                                                resolved.path),
                                !.target = Some([file |-> resolved.heap[resolved.root].file,
                                                 path |-> resolved.path,
                                                 data_type |-> resolved.data_type])],
                    TypeFrame(resolved.root,
                              Some(ref_src(resolved.heap[resolved.root].file,
                                           resolved.path)),
                              resolved.data_type, TRUE, Top.visited_objects))
       ELSE /\ phase' = "panicked"
            /\ UNCHANGED <<roots, cache, stack, ret>>
    /\ UNCHANGED <<files, types, next_position, known_type_names,
                   calls, output, last, first_seen, ref_sites>>

AddTypeRef ==
    /\ Running
    /\ Top.fn = "add_type" /\ Top.pc = "start"
    /\ Top.data_type.kind = "Ref"
    /\ AddTypeResolved(resolve(files, roots, cache, Top.root, Top.data_type.ref_path))

\* variant: an alternative is added with the visited_objects of the caller
AddTypeAlternative_keeping_visited_objects ==
    /\ Running
    /\ Top.fn = "add_type" /\ Top.pc = "start"
    /\ Top.data_type.kind \in {"OneOf", "AnyOf", "AllOf"}
    /\ Top.i < Len(Top.data_type.types)
    /\ Call([Top EXCEPT !.i = Top.i + 1],
            TypeFrame(Top.root, None, Top.data_type.types[Top.i + 1], FALSE,
                      Top.visited_objects))
    /\ UNCHANGED <<files, roots, cache, types, next_position, known_type_names,
                   calls, output, last, first_seen, ref_sites>>

\* add_type on OneOf / AnyOf / AllOf: add() the next alternative, dropping its result
AddTypeAlternative ==
    /\ Running
    /\ Top.fn = "add_type" /\ Top.pc = "start"
    /\ Top.data_type.kind \in {"OneOf", "AnyOf", "AllOf"}
    /\ Top.i < Len(Top.data_type.types)
    /\ Call([Top EXCEPT !.i = Top.i + 1],
            TypeFrame(Top.root, None, Top.data_type.types[Top.i + 1], FALSE, <<>>))
    /\ UNCHANGED <<files, roots, cache, types, next_position, known_type_names,
                   calls, output, last, first_seen, ref_sites>>

\* add_type on OneOf / AnyOf / AllOf: after the loop the type is Value
AddTypeAlternativesDone ==
    /\ Running
    /\ Top.fn = "add_type" /\ Top.pc = "start"
    /\ Top.data_type.kind \in {"OneOf", "AnyOf", "AllOf"}
    /\ Top.i = Len(Top.data_type.types)
    /\ Return(wrap_required(Top.required, S_Value), TypeReturned(Top, S_Value, ret))
    /\ UNCHANGED <<files, roots, cache, types, next_position, known_type_names,
                   calls, output, first_seen, ref_sites>>

\* history: a reference has been materialized
RefSite(f, type_name) ==
    [ref_path |-> f.data_type.ref_path, src |-> f.src,
     file |-> Unwrap(f.target).file, path |-> Unwrap(f.target).path,
     definition |-> IF IsSome(Unwrap(f.target).path)
                    THEN Some(filter_non_empty(split(Unwrap(Unwrap(f.target).path), "/"))[2])
                    ELSE None,
     data_type |-> Unwrap(f.target).data_type,
     type_name |-> type_name]

\* variant: a Ref returns the text of the reference instead of the type of its target
AddTypeReturn_with_ref_path ==
    /\ Running
    /\ Top.fn = "add_type" /\ Top.pc = "wait"
    /\ IsSome(ret)
    /\ LET type_name ==
               CASE Top.data_type.kind = "Array" -> S_Vec_open \o Unwrap(ret) \o S_close
                 [] Top.data_type.kind = "Map" -> S_BTreeMap_open \o Unwrap(ret) \o S_close
                 [] Top.data_type.kind = "Ref" -> Top.data_type.ref_path
                 [] OTHER -> Unwrap(ret)
       IN  /\ Return(wrap_required(Top.required, type_name),
                     TypeReturned(Top, type_name, ret))
           /\ ref_sites' = IF Top.data_type.kind = "Ref"
                           THEN ref_sites \cup {RefSite(Top, type_name)}
                           ELSE ref_sites
    /\ UNCHANGED <<files, roots, cache, types, next_position, known_type_names,
                   calls, output, first_seen>>

\* add_type on Array, Map, Object, Ref: the inner call has returned
AddTypeReturn ==
    /\ Running
    /\ Top.fn = "add_type" /\ Top.pc = "wait"
    /\ IsSome(ret)
    /\ LET type_name ==
               CASE Top.data_type.kind = "Array" -> S_Vec_open \o Unwrap(ret) \o S_close
                 [] Top.data_type.kind = "Map" -> S_BTreeMap_open \o Unwrap(ret) \o S_close
                 [] OTHER -> Unwrap(ret)
       IN  /\ Return(wrap_required(Top.required, type_name),
                     TypeReturned(Top, type_name, ret))
           /\ ref_sites' = IF Top.data_type.kind = "Ref"
                           THEN ref_sites \cup {RefSite(Top, type_name)}
                           ELSE ref_sites
    /\ UNCHANGED <<files, roots, cache, types, next_position, known_type_names,
                   calls, output, first_seen>>

\* variant: add_object takes a position also for a src that has a name
AddObjectKnown_taking_a_position ==
    /\ Running
    /\ Top.fn = "add_object" /\ Top.pc = "start"
    /\ contains_key(known_type_names, Top.src) \/ contains_key(types, Top.src)
    /\ LET cycle_detected == contains(Top.visited_objects, Top.src)
           name == IF contains_key(known_type_names, Top.src)
                   THEN known_type_names[Top.src]
                   ELSE types[Top.src].payload.name
       IN  Return(wrap_cycle(cycle_detected, name),
                  ObjectReturned(Top, cycle_detected, name, FALSE))
    /\ next_position' = next_position + 1
    /\ UNCHANGED <<files, roots, cache, types, known_type_names,
                   calls, output, first_seen, ref_sites>>

\* add_object on a src that has a name (or, failing that, a record) already
AddObjectKnown ==
    /\ Running
    /\ Top.fn = "add_object" /\ Top.pc = "start"
    /\ contains_key(known_type_names, Top.src) \/ contains_key(types, Top.src)
    /\ LET cycle_detected == contains(Top.visited_objects, Top.src)
           name == IF contains_key(known_type_names, Top.src)
                   THEN known_type_names[Top.src]
                   ELSE types[Top.src].payload.name
       IN  Return(wrap_cycle(cycle_detected, name),
                  ObjectReturned(Top, cycle_detected, name, FALSE))
    /\ UNCHANGED <<files, roots, cache, types, next_position, known_type_names,
                   calls, output, first_seen, ref_sites>>

\* variant: add_object on a new src takes a position and a name but registers
\* the name with the record only
AddObjectNew_without_registering ==
    /\ Running
    /\ Top.fn = "add_object" /\ Top.pc = "start"
    /\ ~contains_key(known_type_names, Top.src) /\ ~contains_key(types, Top.src)
    /\ LET cycle_detected == contains(Top.visited_objects, Top.src)
           name == get_collision_free_name(known_type_names,
                                           sanitize_struct_name(Top.data_type.name))
       IN  /\ next_position' = next_position + 1
           /\ stack' = [stack EXCEPT ![Len(stack)] =
                           [Top EXCEPT !.pc = "properties",
                                       !.cycle_detected = cycle_detected,
                                       !.position = next_position,
                                       !.name = name]]
    /\ first_seen' = Append(first_seen, [src |-> Top.src, name |-> Top.data_type.name,
                                         object |-> Top.data_type])
    /\ UNCHANGED <<files, roots, cache, types, known_type_names, ret, phase, calls,
                   output, last, ref_sites>>

\* variant: add_object takes a position and a name for every src without a record
AddObjectNew_for_a_named_src ==
    /\ Running
    /\ Top.fn = "add_object" /\ Top.pc = "start"
    /\ ~contains_key(types, Top.src)
    /\ LET cycle_detected == contains(Top.visited_objects, Top.src)
           name == get_collision_free_name(known_type_names,
                                           sanitize_struct_name(Top.data_type.name))
       IN  /\ next_position' = next_position + 1
           /\ known_type_names' = insert(known_type_names, Top.src, name)
           /\ stack' = [stack EXCEPT ![Len(stack)] =
                           [Top EXCEPT !.pc = "properties",
                                       !.cycle_detected = cycle_detected,
                                       !.position = next_position,
                                       !.name = name]]
    /\ first_seen' = Append(first_seen, [src |-> Top.src, name |-> Top.data_type.name,
                                         object |-> Top.data_type])
    /\ UNCHANGED <<files, roots, cache, types, ret, phase, calls, output, last, ref_sites>>

\* add_object on a new src: take a position and a name, register, push src
AddObjectNew ==
    /\ Running
    /\ Top.fn = "add_object" /\ Top.pc = "start"
    /\ ~contains_key(known_type_names, Top.src) /\ ~contains_key(types, Top.src)
    /\ LET cycle_detected == contains(Top.visited_objects, Top.src)
           name == get_collision_free_name(known_type_names,
                                           sanitize_struct_name(Top.data_type.name))
       IN  /\ next_position' = next_position + 1
           /\ known_type_names' = insert(known_type_names, Top.src, name)
           /\ stack' = [stack EXCEPT ![Len(stack)] =
                           [Top EXCEPT !.pc = "properties",
                                       !.cycle_detected = cycle_detected,
                                       !.position = next_position,
                                       !.name = name]]
    /\ first_seen' = Append(first_seen, [src |-> Top.src, name |-> Top.data_type.name,
                                         object |-> Top.data_type])
    /\ UNCHANGED <<files, roots, cache, types, ret, phase, calls, output, last, ref_sites>>

\* the loop of add_object: create_property calls add_type for the next property
AddObjectProperty ==
    /\ Running
    /\ Top.fn = "add_object" /\ Top.pc = "properties"
    /\ Top.i < Len(Top.data_type.properties)
    /\ LET property == Top.data_type.properties[Top.i + 1]
       IN  Call([Top EXCEPT !.pc = "wait"],
                TypeFrame(Top.root, None, property.data_type, property.required,
                          local_visited_objects(Top)))
    /\ UNCHANGED <<files, roots, cache, types, next_position, known_type_names,
                   calls, output, last, first_seen, ref_sites>>

SerdeOptions(rename, skip_serializing_if) ==
    [rename |-> rename, skip_serializing_if |-> skip_serializing_if]

GeneratedProperty(name, property_type, serde_options) ==
    [name |-> name, property_type |-> property_type, serde_options |-> serde_options]

\* variant: create_property renames every property
create_property_always_renamed(property, property_type) ==
    GeneratedProperty(
        sanitize_property_name(property.name),
        property_type,
        SerdeOptions(Some(property.name),
                     IF property.required THEN None ELSE Some(S_is_none)))

\* variant: create_property lets every property be skipped
create_property_always_skipped(property, property_type) ==
    GeneratedProperty(
        sanitize_property_name(property.name),
        property_type,
        SerdeOptions(IF property.name = sanitize_property_name(property.name)
                     THEN None ELSE Some(property.name),
                     Some(S_is_none)))

\* create_property, given what its call of add_type returned
create_property(property, property_type) ==
    GeneratedProperty(
        sanitize_property_name(property.name),
        property_type,
        SerdeOptions(IF property.name = sanitize_property_name(property.name)
                     THEN None ELSE Some(property.name),
                     IF property.required THEN None ELSE Some(S_is_none)))

\* the loop of add_object: push the GeneratedProperty
AddObjectPropertyReturn ==
    /\ Running
    /\ Top.fn = "add_object" /\ Top.pc = "wait"
    /\ IsSome(ret)
    /\ stack' = [stack EXCEPT ![Len(stack)] =
                    [Top EXCEPT !.pc = "properties",
                                !.i = Top.i + 1,
                                !.new_properties =
                                    Append(Top.new_properties,
                                           create_property(Top.data_type.properties[Top.i + 1],
                                                           Unwrap(ret)))]]
    /\ ret' = None
    /\ UNCHANGED <<files, roots, cache, types, next_position, known_type_names,
                   phase, calls, output, last, first_seen, ref_sites>>

\* variant: the record is stored with the position that is free at the end
AddObjectFinish_with_next_position ==
    /\ Running
    /\ Top.fn = "add_object" /\ Top.pc = "properties"
    /\ Top.i = Len(Top.data_type.properties)
    /\ types' = insert(types, Top.src,
                       EntryWithPosition(next_position,
                                         GeneratedType(Top.src, Top.name, Top.new_properties)))
    /\ Return(wrap_cycle(Top.cycle_detected, Top.name),
              ObjectReturned(Top, Top.cycle_detected, Top.name, TRUE))
    /\ UNCHANGED <<files, roots, cache, next_position, known_type_names,
                   calls, output, first_seen, ref_sites>>

\* the end of add_object: store the record under src and return the name
AddObjectFinish ==
    /\ Running
    /\ Top.fn = "add_object" /\ Top.pc = "properties"
    /\ Top.i = Len(Top.data_type.properties)
    /\ types' = insert(types, Top.src,
                       EntryWithPosition(Top.position,
                                         GeneratedType(Top.src, Top.name, Top.new_properties)))
    /\ Return(wrap_cycle(Top.cycle_detected, Top.name),
              ObjectReturned(Top, Top.cycle_detected, Top.name, TRUE))
    /\ UNCHANGED <<files, roots, cache, next_position, known_type_names,
                   calls, output, first_seen, ref_sites>>

\* the recursion outgrows the stack: the process is killed
StackOverflow ==
    /\ Running
    /\ Len(stack) >= MaxDepth
    /\ \/ Top.fn = "add_type" /\ Top.pc = "start"
          /\ (Top.data_type.kind \in {"Array", "Map", "Object", "Ref"}
              \/ (Top.data_type.kind \in {"OneOf", "AnyOf", "AllOf"}
                  /\ Top.i < Len(Top.data_type.types)))
       \/ Top.fn = "add_object" /\ Top.pc = "properties"
          /\ Top.i < Len(Top.data_type.properties)
    /\ phase' = "overflow"
    /\ UNCHANGED <<files, roots, cache, types, next_position, known_type_names,
                   stack, ret, calls, output, last, first_seen, ref_sites>>

\* Into<Vec<GeneratedType>> for Generator, for some iteration order of types
Into ==
    /\ phase = "idle"
    /\ calls > 0
    /\ \E order \in IterationOrders(types) : output' = into_vec(types, order)
    /\ phase' = "finished"
    /\ UNCHANGED <<files, roots, cache, types, next_position, known_type_names,
                   stack, ret, calls, last, first_seen, ref_sites>>

Next ==
    \/ \E path \in EntryPaths : AddFile(path)
    \/ AddTypeLeaf
    \/ AddTypeArray
    \/ AddTypeMap
    \/ AddTypeObject
    \/ AddTypeRef
    \/ AddTypeAlternative
    \/ AddTypeAlternativesDone
    \/ AddTypeReturn
    \/ AddObjectKnown
    \/ AddObjectNew
    \/ AddObjectProperty
    \/ AddObjectPropertyReturn
    \/ AddObjectFinish
    \/ StackOverflow
    \/ Into

Spec == Init /\ [][Next]_vars

-----------------------------------------------------------------------------
(* Properties *)

\* the records of the table, whatever their order
Records == {types[src].payload : src \in DOMAIN types}

\* C1: no two emitted records have the same name, neither in the record table
\* after any sequence of add_file calls nor in the list Into returns, also when
\* several objects with distinct srcs have titles that sanitize to one name.
C1_UniqueRecordNames ==
    /\ \A r1, r2 \in Records : r1.name = r2.name => r1.src = r2.src
    /\ \A i, j \in 1..Len(output) : output[i].name = output[j].name => i = j

\* C1: three objects have been emitted whose titles sanitize to the same name
C1_Witness ==
    /\ phase = "finished"
    /\ \E i, j, k \in 1..Len(first_seen) :
          /\ i < j /\ j < k
          /\ sanitize_struct_name(first_seen[i].name) = sanitize_struct_name(first_seen[j].name)
          /\ sanitize_struct_name(first_seen[j].name) = sanitize_struct_name(first_seen[k].name)
          /\ first_seen[i].name # first_seen[j].name
          /\ \A n \in {i, j, k} : first_seen[n].src \in DOMAIN types


\* a type reference without the Box<> add_object puts around it
strip_box(type_reference) ==
    IF starts_with(type_reference, S_Box_open)
    THEN SubSeq(type_reference, Len(S_Box_open) + 1, Len(type_reference) - 1)
    ELSE type_reference

\* two references have resolved to one definition: the same entry of the
\* definitions of the same file (or the same root)
SameDefinition(s1, s2) == s1.file = s2.file /\ s1.definition = s2.definition

\* the srcs that have a name or a record
KnownSrcs == DOMAIN known_type_names \cup DOMAIN types

\* C2 (as stated): all references that resolve to one object definition, by
\* whatever $ref text, name one record: they are registered under one src and
\* return the same name, Box aside.
C2_OneRecordPerDefinition ==
    \A s1, s2 \in ref_sites :
        SameDefinition(s1, s2) /\ s1.data_type.kind = "Object" =>
            /\ s1.src = s2.src
            /\ strip_box(s1.type_name) = strip_box(s2.type_name)

\* C2 (amended): the record of a referenced object definition is keyed by the
\* text file#path of the reference, so references that resolve to one definition
\* through the same path text share one src, one registered name and, once
\* built, one record, and each returns that name, Box aside; a reference that
\* spells the path differently is not covered.
C2_OneRecordPerReferenceSrc ==
    /\ \A s1, s2 \in ref_sites :
          SameDefinition(s1, s2) /\ s1.src = s2.src =>
              strip_box(s1.type_name) = strip_box(s2.type_name)
    /\ \A s \in ref_sites :
          s.data_type.kind = "Object" =>
              /\ contains_key(known_type_names, s.src)
              /\ strip_box(s.type_name) = known_type_names[s.src]
              /\ contains_key(types, s.src) => types[s.src].payload.name = known_type_names[s.src]

\* C2: one object definition has been referenced through two different $ref
\* texts that give the same src, and the run has finished
C2_Witness ==
    /\ phase = "finished"
    /\ \E s1, s2 \in ref_sites :
          /\ s1.ref_path # s2.ref_path
          /\ SameDefinition(s1, s2) /\ s1.src = s2.src
          /\ s1.data_type.kind = "Object"
          /\ contains_key(types, s1.src)


\* two frames are calls of add_type with the same arguments
SameCall(f, g) ==
    /\ f.fn = "add_type" /\ g.fn = "add_type"
    /\ f.root = g.root /\ f.src_override = g.src_override
    /\ f.data_type = g.data_type /\ f.required = g.required
    /\ f.visited_objects = g.visited_objects

\* a call of add_type is nested in a call of add_type with the same arguments,
\* and no call of add_object lies between them or above
RepeatedCall ==
    \E i, j \in 1..Len(stack) :
        /\ i < j
        /\ SameCall(stack[i], stack[j])
        /\ \A k \in i..Len(stack) : stack[k].fn = "add_type"

\* C3 (as stated): whatever way the definitions refer to each other, add_file
\* returns: the recursion of add_type never repeats a call with the same
\* arguments, nothing registered in between, until the stack is used up.
C3_AddFileTerminates == ~(phase = "overflow" /\ RepeatedCall)


\* the two files of should_detect_loops: Loop.a -> b, b.c -> c of l2, c.b -> b of l1
LoopFiles ==
    FileSystem(
        Text([S_object(Some(T_Loop), <<Entry(N_a, S_ref(R_b))>>, None)
                 EXCEPT !.definitions =
                     <<Entry(N_b, S_object(None, <<Entry(N_c, S_ref(R_l2_c))>>, None))>>]),
        Text([EmptySchema EXCEPT !.definitions =
                     <<Entry(N_c, S_object(None, <<Entry(N_b, S_ref(R_l1_b))>>, None))>>]))

\* the name and the property types of the i-th record of the output
Shape(i) ==
    <<output[i].name,
      [k \in 1..Len(output[i].properties) |-> output[i].properties[k].property_type]>>

\* the records of the two-file loop: Loop.a = Option<B>, B.c = Option<C>,
\* C.b = Option<Box<B>>
LoopExample ==
    files = LoopFiles /\ phase = "finished" /\ output # <<>> =>
        /\ Len(output) = 3
        /\ Shape(1) = <<T_Loop, <<S_Option_open \o <<"B">> \o S_close>> >>
        /\ Shape(2) = <<<<"B">>, <<S_Option_open \o <<"C">> \o S_close>> >>
        /\ Shape(3) = <<<<"C">>,
                        <<S_Option_open \o S_Box_open \o <<"B">> \o S_close \o S_close>> >>

\* the kinds of add_type that start their inner calls with no visited objects
Unvisiting == {"Array", "Map", "OneOf", "AnyOf", "AllOf"}

\* C4 (as stated): add_object returns Box<Name> exactly when the record of its
\* src is still being built by a call of add_object further down the stack;
\* the two-file loop gives Option<B>, Option<C>, Option<Box<B>>.
C4_BoxIffBeingBuilt ==
    /\ last.fn = "add_object" =>
          (last.cycle_detected <=> last.src \in last.building)
    /\ LoopExample

\* C4 (amended): add_object returns Box<Name> exactly when its src is among the
\* visited objects it was called with, that is when the record of src is being
\* built further down the stack and only object properties and references lie
\* between; an ancestor reached through array items, map values or the
\* alternatives of a composition comes back unboxed.  Every visited object is
\* being built and has no record yet, a boxed object was not created by this
\* call, and the two-file loop gives Option<B>, Option<C>, Option<Box<B>>.
C4_BoxIffVisited ==
    /\ last.fn = "add_object" =>
          /\ last.cycle_detected <=> contains(last.visited_objects, last.src)
          /\ last.cycle_detected <=>
                (last.src \in last.building /\ last.through \cap Unvisiting = {})
          /\ last.value = IF last.cycle_detected
                          THEN S_Box_open \o last.name \o S_close ELSE last.name
          /\ last.cycle_detected => ~last.created
          /\ \A k \in 1..Len(last.visited_objects) :
                /\ last.visited_objects[k] \in last.building
                /\ ~contains_key(types, last.visited_objects[k])
    /\ LoopExample

\* C4: add_object has returned a boxed name for an ancestor two objects up
C4_Witness ==
    /\ last.fn = "add_object"
    /\ last.cycle_detected
    /\ Len(last.visited_objects) >= 3
    /\ last.visited_objects[Len(last.visited_objects)] # last.src


\* the name a property has in the schema
raw_name(property) ==
    IF IsSome(property.serde_options.rename)
    THEN Unwrap(property.serde_options.rename) ELSE property.name

\* the src parse_object_type gives the inline object of a property
property_src(src, property) ==
    src \o S_slash \o S_properties \o S_slash \o raw_name(property)

\* the index of the record of src in the output, 0 if it has none
index_of(src) ==
    IF \E i \in 1..Len(output) : output[i].src = src
    THEN CHOOSE i \in 1..Len(output) : output[i].src = src
    ELSE 0

\* C5: the i-th object add_object first met has position i - 1, taken before
\* any of its properties is visited and before its record exists; the objects
\* being built lie on the stack in ascending position, parent below child; the
\* list Into returns holds the records in strictly ascending position, which is
\* the order of first encounter, so that a record precedes the records of the
\* inline objects of its properties and these follow in property order.
C5_OutputInOrderOfFirstEncounter ==
    /\ next_position = Len(first_seen)
    /\ \A i \in 1..Len(first_seen) :
          contains_key(types, first_seen[i].src) =>
              types[first_seen[i].src].position = i - 1
    /\ \A k \in 1..Len(stack) :
          stack[k].fn = "add_object" /\ stack[k].pc # "start" =>
              /\ first_seen[stack[k].position + 1].src = stack[k].src
              /\ ~contains_key(types, stack[k].src)
              /\ \A j \in 1..(k - 1) :
                    stack[j].fn = "add_object" => stack[j].position < stack[k].position
    /\ phase = "finished" =>
          /\ Len(output) = Len(first_seen)
          /\ \A i \in 1..Len(output) :
                /\ output[i] = types[first_seen[i].src].payload
                /\ i < Len(output) =>
                      types[output[i].src].position < types[output[i + 1].src].position
          /\ \A k \in 1..Len(output) :
                \A p, q \in 1..Len(output[k].properties) :
                    p < q /\ index_of(property_src(output[k].src, output[k].properties[p])) > 0
                          /\ index_of(property_src(output[k].src, output[k].properties[q])) > 0
                    => /\ k < index_of(property_src(output[k].src, output[k].properties[p]))
                       /\ index_of(property_src(output[k].src, output[k].properties[p]))
                             < index_of(property_src(output[k].src, output[k].properties[q]))

\* C5: the output holds a record and, after it, the records of three inline
\* objects of its properties
C5_Witness ==
    /\ phase = "finished"
    /\ \E k \in 1..Len(output) :
          /\ Len(output[k].properties) = 3
          /\ \A p \in 1..3 :
                index_of(property_src(output[k].src, output[k].properties[p])) > k


\* C6: the list Into returns does not depend on the order in which the hash map
\* of the records is iterated: every iteration order gives the list that was
\* returned, because no two records have the same position; and every name in
\* the registry belongs to one src only, so that the collision search does not
\* depend on the order of the registry either.
C6_OutputIndependentOfIterationOrder ==
    /\ \A s1, s2 \in DOMAIN types :
          types[s1].position = types[s2].position => s1 = s2
    /\ \A s1, s2 \in DOMAIN known_type_names :
          known_type_names[s1] = known_type_names[s2] => s1 = s2
    /\ phase = "finished" =>
          \A order \in IterationOrders(types) :
              /\ into_vec(types, order) = output
              /\ \A i \in 1..Len(output) :
                    /\ output[i].src = first_seen[i].src
                    /\ output[i].name = known_type_names[first_seen[i].src]

\* C6: Into has returned three or more records, which the hash map can iterate
\* in six or more orders
C6_Witness ==
    /\ phase = "finished"
    /\ Len(output) >= 3
    /\ Cardinality(IterationOrders(types)) >= 6


\* the data types the final match of add_type is said to leave unwrapped: Array,
\* Map and the fallback to Value (Null, Any, OneOf, AnyOf, AllOf)
SaidUnwrapped(data_type) ==
    \/ data_type.kind \in {"Array", "Map", "Any", "OneOf", "AnyOf", "AllOf"}
    \/ data_type.kind = "PrimitiveType" /\ data_type.primitive_type = "Null"

Option(type_name) == S_Option_open \o type_name \o S_close

\* C7 (as stated): with required = false add_type returns Option<T> for a
\* Boolean, Integer, Number, String or Object and the bare T for an Array, a
\* Map, and the types that fall back to Value.
C7_OptionOnlyForPrimitiveAndObject ==
    last.fn = "add_type" /\ ~last.required =>
        last.value = IF SaidUnwrapped(last.data_type)
                     THEN last.type_name ELSE Option(last.type_name)

\* C7 (amended): with required = false add_type returns Option<T> for every
\* data type, for an Array, a Map and the types that fall back to Value as much
\* as for a primitive or an Object; with required = true it returns the bare T.
C7_OptionForEveryDataType ==
    last.fn = "add_type" =>
        /\ ~last.required => /\ last.value = Option(last.type_name)
                             /\ last.value # last.type_name
        /\ last.required => last.value = last.type_name
        /\ Running /\ Top.fn = "add_object" /\ Top.pc = "wait" /\ IsSome(ret) =>
              (starts_with(Unwrap(ret), S_Option_open)
                  <=> ~Top.data_type.properties[Top.i + 1].required)

\* C7: add_type has returned for a non-required Array, Map or fallback type
C7_Witness ==
    /\ last.fn = "add_type" /\ ~last.required
    /\ last.kind = "Array"
    /\ last.value = Option(S_Vec_open \o S_String \o S_close)

\* C8: whatever the data type, add_type returns Option<T> when not required and
\* T when required, where T holds no Option: the items of an Array, the values
\* of a Map, the target of a Ref and the Object of add_object are always added
\* with required = true.  So the type of a generated property holds Option once,
\* at the front, if the property is not required, and not at all if it is.
C8_OptionOutermostOnly ==
    /\ last.fn = "add_type" =>
          /\ count_matches(last.type_name, S_Option_open) = 0
          /\ count_matches(last.value, S_Option_open) = IF last.required THEN 0 ELSE 1
          /\ ~last.required => starts_with(last.value, S_Option_open)
          /\ last.kind = "Array" => last.type_name = S_Vec_open \o Unwrap(last.argument) \o S_close
          /\ last.kind = "Map" => last.type_name = S_BTreeMap_open \o Unwrap(last.argument) \o S_close
          /\ last.kind \in {"Ref", "Object"} => last.type_name = Unwrap(last.argument)
    /\ \A k \in 1..(Len(stack) - 1) :
          /\ stack[k].fn = "add_type" /\ stack[k].pc = "wait"
          /\ stack[k + 1].fn = "add_type"
          => stack[k + 1].required
    /\ \A src \in DOMAIN types :
          \A p \in 1..Len(types[src].payload.properties) :
              LET property == types[src].payload.properties[p]
              IN  /\ count_matches(property.property_type, S_Option_open)
                        = IF IsSome(property.serde_options.skip_serializing_if) THEN 1 ELSE 0
                  /\ starts_with(property.property_type, S_Option_open)
                        <=> IsSome(property.serde_options.skip_serializing_if)

\* C8: a non-required reference to an object that is being built has returned
\* Option<Box<Name>>, where Box<Name> is what the target returned
C8_Witness ==
    /\ last.fn = "add_type" /\ ~last.required
    /\ last.kind = "Ref"
    /\ starts_with(last.value, S_Option_open \o S_Box_open)
    /\ ~starts_with(last.type_name, S_Option_open)


\* the src add_type hands to add_object for the Object it has returned for
object_src(returned) ==
    IF IsSome(returned.src_override) THEN Unwrap(returned.src_override)
    ELSE returned.data_type.src

\* what add_type returns, required, for the types that need no inner call
LeafMapping ==
    /\ last.kind = "PrimitiveType" =>
          /\ last.data_type.primitive_type = "Null" => last.value = S_Value
          /\ last.data_type.primitive_type = "Boolean" => last.value = S_bool
          /\ last.data_type.primitive_type = "Integer" => last.value = S_i64
          /\ last.data_type.primitive_type = "Number" => last.value = S_f64
          /\ last.data_type.primitive_type = "String" => last.value = S_String
    /\ last.kind \in {"Any", "OneOf", "AnyOf", "AllOf"} => last.value = S_Value

\* what add_type returns, required, for an Array, a Map and a Ref, given what
\* the inner call of add_type, made with required = true, returned
InnerMapping ==
    /\ last.kind = "Array" =>
          last.value = S_Vec_open \o Unwrap(last.argument) \o S_close
    /\ last.kind = "Map" =>
          last.value = S_BTreeMap_open \o Unwrap(last.argument) \o S_close
    /\ last.kind = "Ref" => last.value = Unwrap(last.argument)

\* a run on a root schema of a primitive type leaves no record
PrimitiveRoot ==
    /\ last.fn = "add_type" /\ last.depth = 1 /\ last.kind = "PrimitiveType" =>
          /\ ~last.required
          /\ last.value = Option(primitive_type_name(last.data_type.primitive_type))
          /\ types = EmptyMap /\ known_type_names = EmptyMap /\ next_position = 0
          /\ phase = "finished" => output = <<>>

\* C9 (as stated): with required = true add_type returns Value, bool, i64, f64,
\* String for the primitives, Vec<T> and BTreeMap<String, T> around the required
\* type of the items and values, Value for Any and the compositions, the name
\* of the record for an Object and the type of its target for a Ref; a
\* primitive root leaves no record.
C9_RequiredMapping ==
    /\ last.fn = "add_type" /\ last.required =>
          /\ LeafMapping
          /\ InnerMapping
          /\ last.kind = "Object" => last.value = known_type_names[object_src(last)]
    /\ PrimitiveRoot

\* C9 (amended): as stated, except that an Object gives the name of its record
\* only when its src is not among the visited objects; when it is, which
\* happens for the target of a reference to an object being built, add_type
\* returns Box<name>, and so does the Ref that led to it.
C9_RequiredMappingWithBox ==
    /\ last.fn = "add_type" /\ last.required =>
          /\ LeafMapping
          /\ InnerMapping
          /\ last.kind = "Object" =>
                /\ last.value = Unwrap(last.argument)
                /\ contains_key(known_type_names, object_src(last))
                /\ strip_box(last.value) = known_type_names[object_src(last)]
                /\ last.value # known_type_names[object_src(last)] =>
                      /\ last.value = S_Box_open \o known_type_names[object_src(last)] \o S_close
                      /\ IsSome(last.src_override)
                      /\ ~contains_key(types, object_src(last))
    /\ PrimitiveRoot

\* C9: a required Map of Arrays of booleans has returned its type
C9_Witness ==
    /\ last.fn = "add_type" /\ last.required
    /\ last.kind = "Map"
    /\ last.value = S_BTreeMap_open \o S_Vec_open \o S_bool \o S_close \o S_close


\* the names registered before the i-th object was first met
NamesBefore(i) == {known_type_names[first_seen[j].src] : j \in 1..(i - 1)}

\* the root of should_prevent_name_collisions: an untitled object with three
\* inline objects titled A
CollisionFiles ==
    OnlyL1(Text(S_object(None,
                         <<Entry(N_a, S_holder(Some(T_A), EmptySchema)),
                           Entry(N_b, S_holder(Some(T_A), EmptySchema)),
                           Entry(N_c, S_holder(Some(T_A), EmptySchema))>>,
                         None)))

\* C10: the object met as the i-th gets the name sanitize_struct_name(name) if
\* none of the names registered before equals it, and otherwise that name
\* followed by the smallest k >= 1 that gives a name not registered before;
\* add_object returns the name registered for its own src.  Three inline
\* objects titled A are named A, A1, A2 in the order of their properties, and
\* the properties of their parent have the types Option<A>, Option<A1>,
\* Option<A2>.
C10_SmallestFreeSuffix ==
    /\ DOMAIN known_type_names = {first_seen[i].src : i \in 1..Len(first_seen)}
    /\ \A i \in 1..Len(first_seen) :
          IF sanitize_struct_name(first_seen[i].name) \notin NamesBefore(i)
          THEN known_type_names[first_seen[i].src] = sanitize_struct_name(first_seen[i].name)
          ELSE \E k \in 1..i :
                  /\ known_type_names[first_seen[i].src]
                        = sanitize_struct_name(first_seen[i].name) \o to_string(k)
                  /\ known_type_names[first_seen[i].src] \notin NamesBefore(i)
                  /\ \A m \in 1..(k - 1) :
                        sanitize_struct_name(first_seen[i].name) \o to_string(m)
                            \in NamesBefore(i)
    /\ last.fn = "add_object" =>
          /\ last.name = known_type_names[last.src]
          /\ strip_box(last.value) = last.name
    /\ files = CollisionFiles /\ phase = "finished" /\ output # <<>> =>
          /\ Len(output) = 4
          /\ Shape(1) = <<S_Unknown, <<Option(<<"A">>), Option(<<"A", "1">>),
                                       Option(<<"A", "2">>)>> >>
          /\ output[2].name = <<"A">> /\ output[2].src = property_src(P_l1, output[1].properties[1])
          /\ output[3].name = <<"A", "1">> /\ output[3].src = property_src(P_l1, output[1].properties[2])
          /\ output[4].name = <<"A", "2">> /\ output[4].src = property_src(P_l1, output[1].properties[3])

\* C10: an object has got the suffix 2 because its name and the name with the
\* suffix 1 were registered, and the records are out
C10_Witness ==
    /\ phase = "finished"
    /\ \E i \in 1..Len(first_seen) :
          /\ sanitize_struct_name(first_seen[i].name) \in NamesBefore(i)
          /\ sanitize_struct_name(first_seen[i].name) \o to_string(1) \in NamesBefore(i)
          /\ known_type_names[first_seen[i].src]
                = sanitize_struct_name(first_seen[i].name) \o to_string(2)


\* the names in the registry
RegisteredNames == {known_type_names[src] : src \in DOMAIN known_type_names}

\* what lies between a prefix and the closing bracket of a type reference
inner(type_reference, prefix) ==
    SubSeq(type_reference, Len(prefix) + 1, Len(type_reference) - 1)

\* a type reference without the Option<> add_type puts around it
strip_option(type_reference) ==
    IF starts_with(type_reference, S_Option_open)
    THEN inner(type_reference, S_Option_open) ELSE type_reference

\* the text is a type reference that names nothing but Value, the primitives and
\* registered records, inside Vec<>, BTreeMap<String, > and Box<>
RECURSIVE is_type_reference(_)
is_type_reference(text) ==
    IF text \in {S_Value, S_bool, S_i64, S_f64, S_String} \cup RegisteredNames THEN TRUE
    ELSE IF ~ends_with(text, S_close) THEN FALSE
    ELSE IF starts_with(text, S_Box_open) THEN inner(text, S_Box_open) \in RegisteredNames
    ELSE IF starts_with(text, S_Vec_open) THEN is_type_reference(inner(text, S_Vec_open))
    ELSE IF starts_with(text, S_BTreeMap_open)
         THEN is_type_reference(inner(text, S_BTreeMap_open))
    ELSE FALSE

\* C11 (as stated): whatever the definition a $ref points at, the type the
\* reference returns is the name of a registered record, that name in Box<>,
\* or Value.
C11_RefIsRecordOrValue ==
    \A s \in ref_sites :
        strip_box(s.type_name) \in RegisteredNames \cup {S_Value}

\* C11 (amended): a $ref returns the type of its resolved target and never the
\* text of the reference: the name of the registered record, plain or in Box<>,
\* for an Object; Value for Any and the compositions; the primitive type for a
\* primitive; Vec<T> for an Array and BTreeMap<String, T> for a Map.  Every
\* type of every property of every record is built of these only.
C11_RefIsTypeOfTarget ==
    /\ \A s \in ref_sites :
          /\ is_type_reference(s.type_name)
          /\ s.data_type.kind = "Object" => strip_box(s.type_name) = known_type_names[s.src]
          /\ s.data_type.kind \in {"Any", "OneOf", "AnyOf", "AllOf"} => s.type_name = S_Value
          /\ s.data_type.kind = "PrimitiveType" =>
                s.type_name = primitive_type_name(s.data_type.primitive_type)
          /\ s.data_type.kind = "Array" => starts_with(s.type_name, S_Vec_open)
          /\ s.data_type.kind = "Map" => starts_with(s.type_name, S_BTreeMap_open)
    /\ \A src \in DOMAIN types :
          \A p \in 1..Len(types[src].payload.properties) :
              is_type_reference(strip_option(types[src].payload.properties[p].property_type))
    /\ \A i \in 1..Len(output) :
          \A p \in 1..Len(output[i].properties) :
              is_type_reference(strip_option(output[i].properties[p].property_type))

\* C11: the records are out, one of them with a property whose $ref points at
\* an Array definition
C11_Witness ==
    /\ phase = "finished" /\ output # <<>>
    /\ \E s \in ref_sites : s.data_type.kind = "Array"


\* the record of the i-th object has one property for each property of the
\* Object, in the same order
SameProperties(i) ==
    Len(types[first_seen[i].src].payload.properties) = Len(first_seen[i].object.properties)

\* the p-th property of the i-th object, as parsed and as generated
Parsed(i, p) == first_seen[i].object.properties[p]

Generated(i, p) == types[first_seen[i].src].payload.properties[p]

\* the objects that have their record
Built == {i \in 1..Len(first_seen) : contains_key(types, first_seen[i].src)}

\* C12: a generated property has the sanitized name of the property; it has a
\* rename exactly when the sanitized name differs from the name in the schema,
\* and the rename is that name.
C12_RenameIffNameChanged ==
    \A i \in Built :
        /\ SameProperties(i)
        /\ \A p \in 1..Len(first_seen[i].object.properties) :
              /\ Generated(i, p).name = sanitize_property_name(Parsed(i, p).name)
              /\ IsSome(Generated(i, p).serde_options.rename)
                    <=> Generated(i, p).name # Parsed(i, p).name
              /\ IsSome(Generated(i, p).serde_options.rename) =>
                    Unwrap(Generated(i, p).serde_options.rename) = Parsed(i, p).name

\* C12: a record is out with a property that kept its name and three that were
\* renamed: a camel case name, a keyword and a name with @
C12_Witness ==
    /\ phase = "finished"
    /\ \E i \in 1..Len(output) :
          /\ Len(output[i].properties) = 4
          /\ output[i].properties[1].serde_options.rename = Some(N_at_id)
          /\ output[i].properties[1].name = <<"a", "t", "_", "i", "d">>
          /\ output[i].properties[2].serde_options.rename = None
          /\ output[i].properties[2].name = N_foo
          /\ output[i].properties[3].serde_options.rename = Some(N_fooBar)
          /\ output[i].properties[3].name = <<"f", "o", "o", "_", "b", "a", "r">>
          /\ output[i].properties[4].serde_options.rename = Some(N_type)
          /\ output[i].properties[4].name = <<"t", "y", "p", "e", "_">>

\* C13: a generated property has skip_serializing_if exactly when the property
\* is not required, its value is Option::is_none, and it is there exactly when
\* the type of the property is an Option<>.
C13_SkipIffNotRequired ==
    \A i \in Built :
        /\ SameProperties(i)
        /\ \A p \in 1..Len(first_seen[i].object.properties) :
              /\ IsSome(Generated(i, p).serde_options.skip_serializing_if)
                    <=> ~Parsed(i, p).required
              /\ Generated(i, p).serde_options.skip_serializing_if
                    \in {None, Some(S_is_none)}
              /\ IsSome(Generated(i, p).serde_options.skip_serializing_if)
                    <=> starts_with(Generated(i, p).property_type, S_Option_open)

\* C13: a record is out with required and non-required properties
C13_Witness ==
    /\ phase = "finished"
    /\ \E i \in 1..Len(output) :
          \E p, q \in 1..Len(output[i].properties) :
              /\ output[i].properties[p].serde_options.skip_serializing_if = None
              /\ ~starts_with(output[i].properties[p].property_type, S_Option_open)
              /\ output[i].properties[q].serde_options.skip_serializing_if = Some(S_is_none)
              /\ starts_with(output[i].properties[q].property_type, S_Option_open)


\* the references of the inputs that cannot be resolved
BadRefs ==
    {R_missing_definition, R_missing_file, R_two_hashes, R_nested_path, R_wrong_keyword}

\* C14: a run that met an error (a file that cannot be read or parsed, a
\* reference that cannot be resolved, a stack that ran out) has returned no
\* list of records, whatever it had built before.  A run that has returned the
\* list met no error: every add_file call parsed its file, every file in the
\* cache is a readable file, no property holds a reference that cannot be
\* resolved, no call is pending, and every src that has a name has its
\* record, with all its properties, in the list.
C14_NoPartialResult ==
    /\ phase \in {"panicked", "overflow"} => output = <<>>
    /\ phase = "finished" =>
          /\ stack = <<>>
          /\ Len(roots) >= calls
          /\ \A r \in 1..Len(roots) :
                roots[r].file \in DOMAIN files /\ files[roots[r].file].valid
          /\ \A i \in 1..Len(first_seen) :
                \A p \in 1..Len(first_seen[i].object.properties) :
                    Parsed(i, p).data_type.kind = "Ref" =>
                        Parsed(i, p).data_type.ref_path \notin BadRefs
          /\ DOMAIN known_type_names = DOMAIN types
          /\ Len(output) = Cardinality(DOMAIN known_type_names)
          /\ \A i \in 1..Len(output) :
                /\ output[i] = types[output[i].src].payload
                /\ Len(output[i].properties) = Len(first_seen[i].object.properties)

\* C14: a run has met an error after it had built a record, and has returned
\* no list
C14_Witness ==
    /\ phase = "panicked"
    /\ types # EmptyMap
    /\ DOMAIN known_type_names # DOMAIN types
    /\ output = <<>>


\* the local part of a reference is written /definitions/NAME or /$defs/NAME
is_definition_path(path, keyword) ==
    /\ starts_with(path, S_slash \o keyword \o S_slash)
    /\ Len(path) > Len(keyword) + 2
    /\ \A i \in (Len(keyword) + 3)..Len(path) : path[i] # "/"

\* the NAME of a local part /definitions/NAME or /$defs/NAME
definition_name(path) ==
    IF is_definition_path(path, S_definitions)
    THEN SubSeq(path, Len(S_definitions) + 3, Len(path))
    ELSE SubSeq(path, Len(S_defs) + 3, Len(path))

\* C15 (as stated): resolve returns only for a reference with at most one #
\* whose local part, if it has one, is written exactly /definitions/NAME or
\* /$defs/NAME, with NAME among the definitions of the target root; for every
\* other reference it fails.
C15_ResolveOnlyExactPaths ==
    \A s \in ref_sites :
        /\ count_matches(s.ref_path, S_hash) <= 1
        /\ IsSome(s.path) =>
              /\ is_definition_path(Unwrap(s.path), S_definitions)
                    \/ is_definition_path(Unwrap(s.path), S_defs)
              /\ s.definition = Some(definition_name(Unwrap(s.path)))


\* the index of the first # of a reference, 0 if it has none
hash_index(ref_path) ==
    IF \E i \in 1..Len(ref_path) : ref_path[i] = "#"
    THEN CHOOSE i \in 1..Len(ref_path) :
             ref_path[i] = "#" /\ \A j \in 1..(i - 1) : ref_path[j] # "#"
    ELSE 0

\* what a reference has before its first #, and after it
file_part(ref_path) ==
    IF hash_index(ref_path) = 0 THEN ref_path
    ELSE SubSeq(ref_path, 1, hash_index(ref_path) - 1)

fragment(ref_path) ==
    IF hash_index(ref_path) = 0 THEN <<>>
    ELSE SubSeq(ref_path, hash_index(ref_path) + 1, Len(ref_path))

\* the path a file part is joined to, for a reference met in the Root current
joined(current, ref_path) ==
    join(Unwrap(parent(roots[current].file)), file_part(ref_path))

\* the calls of add_type that have resolved their Ref and wait for the call
\* they made on the target
Resolved ==
    {k \in 1..(Len(stack) - 1) :
        stack[k].fn = "add_type" /\ stack[k].data_type.kind = "Ref" /\ stack[k].pc = "wait"}

\* C16: resolve(current_root, ref) returns current_root for a reference with
\* no file part and, for one with a file part, a Root parsed from the file of
\* that name (or that name with the extension json) in the directory of
\* current_root.file; it returns path None and the top-level data_type of that
\* Root for a reference with no fragment, and the fragment as path and the
\* definition N of that Root for the fragment /definitions/N or /$defs/N.
C16_ResolveResult ==
    \A k \in Resolved :
        /\ file_part(stack[k].data_type.ref_path) = <<>> =>
              stack[k + 1].root = stack[k].root
        /\ file_part(stack[k].data_type.ref_path) # <<>> =>
              /\ roots[stack[k + 1].root].file
                    = IF joined(stack[k].root, stack[k].data_type.ref_path) \in DOMAIN files
                      THEN joined(stack[k].root, stack[k].data_type.ref_path)
                      ELSE joined(stack[k].root, stack[k].data_type.ref_path) \o S_dot \o S_json
              /\ roots[stack[k + 1].root]
                    = parse_from_string(roots[stack[k + 1].root].file,
                                        files[roots[stack[k + 1].root].file]).root
        /\ Unwrap(stack[k].target).file = roots[stack[k + 1].root].file
        /\ fragment(stack[k].data_type.ref_path) = <<>> =>
              /\ Unwrap(stack[k].target).path = None
              /\ stack[k + 1].data_type = roots[stack[k + 1].root].data_type
        /\ is_definition_path(fragment(stack[k].data_type.ref_path), S_definitions)
           \/ is_definition_path(fragment(stack[k].data_type.ref_path), S_defs) =>
              /\ Unwrap(stack[k].target).path = Some(fragment(stack[k].data_type.ref_path))
              /\ stack[k + 1].data_type
                    = roots[stack[k + 1].root].definitions[
                          definition_name(fragment(stack[k].data_type.ref_path))]

\* C16: a reference with a file part and a fragment has been resolved to an
\* Object definition of another Root than the current one
C16_Witness ==
    \E k \in Resolved :
        /\ file_part(stack[k].data_type.ref_path) # <<>>
        /\ fragment(stack[k].data_type.ref_path) # <<>>
        /\ stack[k + 1].root # stack[k].root
        /\ stack[k + 1].data_type.kind = "Object"
        /\ roots[stack[k + 1].root].file # roots[stack[k].root].file


\* the Roots the Resolver has loaded, and the Roots add_file has parsed
CachedRoots == {cache[key] : key \in DOMAIN cache}

EntryRoots == (1..Len(roots)) \ CachedRoots

\* the key a Root was loaded for: the key of its cache entry, or the path
\* given to add_file
load_key(r) ==
    IF r \in CachedRoots THEN CHOOSE key \in DOMAIN cache : cache[key] = r
    ELSE roots[r].file

\* the number of add_file calls that have parsed their file
parsed_calls == IF phase = "panicked" /\ Len(roots) < calls + Cardinality(DOMAIN cache)
                THEN calls - 1 ELSE calls

\* C17: in a run of one add_file call no path is loaded and parsed twice, the
\* file given to add_file included: no two Roots have been loaded for the same
\* key, and a reference to the file of an existing Root gets that Root.
C17_EachPathParsedOnce ==
    calls = 1 =>
    /\ \A r1, r2 \in 1..Len(roots) : load_key(r1) = load_key(r2) => r1 = r2
    /\ \A k \in Resolved :
          \A r \in 1..Len(roots) :
              roots[r].file = roots[stack[k + 1].root].file /\ r <= stack[k + 1].root
              => r = stack[k + 1].root

\* The part of C17 that the Resolver keeps: the Resolver loads and parses a path, as the text of the
\* joined path, at most once: every Root it loaded has one cache entry of its
\* own, nothing else was loaded, an entry holds a Root parsed from the file of
\* that path, and a reference with a file part gets the Root of the cache
\* entry of its joined path.  The file given to add_file is parsed by add_file
\* for each call and is not put into the cache, so a reference that leads back
\* to it loads it once more, as another Root with the same content.
ResolverLoadsPathOnce ==
    /\ \A key1, key2 \in DOMAIN cache : cache[key1] = cache[key2] => key1 = key2
    /\ CachedRoots \subseteq 1..Len(roots)
    /\ Len(roots) = parsed_calls + Cardinality(DOMAIN cache)
    /\ Cardinality(EntryRoots) <= calls
    /\ \A key \in DOMAIN cache :
          /\ roots[cache[key]].file
                = IF key \in DOMAIN files THEN key ELSE key \o S_dot \o S_json
          /\ roots[cache[key]]
                = parse_from_string(roots[cache[key]].file, files[roots[cache[key]].file]).root
    /\ \A r \in EntryRoots : roots[r].file \in EntryPaths
    /\ \A r1, r2 \in 1..Len(roots) : roots[r1].file = roots[r2].file => roots[r1] = roots[r2]
    /\ \A k \in Resolved :
          file_part(stack[k].data_type.ref_path) # <<>> =>
              /\ contains_key(cache, joined(stack[k].root, stack[k].data_type.ref_path))
              /\ stack[k + 1].root = cache[joined(stack[k].root, stack[k].data_type.ref_path)]

\* a run is over in which a reference has led back to the file given to
\* add_file, which is in the cache as a second Root, and in which a second
\* reference to a file has been served from the cache
LedBackToEntryFile ==
    /\ phase = "finished"
    /\ \E key \in DOMAIN cache :
          /\ cache[key] # 1
          /\ roots[cache[key]].file = roots[1].file
          /\ Cardinality({s \in ref_sites : s.file = roots[1].file
                                           /\ file_part(s.ref_path) # <<>>}) >= 2


\* the pairs of a schema and the DataType parsed from it, for a schema and
\* the schemas below it: the alternatives of the composition the DataType is,
\* the items of an Array, the first pattern of a Map, the properties of an Object
RECURSIVE positions(_, _)
positions(schema, data_type) ==
    {[schema |-> schema, data_type |-> data_type]}
    \cup
    CASE data_type.kind = "OneOf" /\ Len(data_type.types) = Len(schema.one_of) ->
            UNION {positions(schema.one_of[i], data_type.types[i]) :
                      i \in 1..Len(schema.one_of)}
      [] data_type.kind = "AnyOf" /\ Len(data_type.types) = Len(schema.any_of) ->
            UNION {positions(schema.any_of[i], data_type.types[i]) :
                      i \in 1..Len(schema.any_of)}
      [] data_type.kind = "AllOf" /\ Len(data_type.types) = Len(schema.all_of) ->
            UNION {positions(schema.all_of[i], data_type.types[i]) :
                      i \in 1..Len(schema.all_of)}
      [] data_type.kind = "Array" /\ IsSome(schema.items) ->
            positions(Unwrap(schema.items), data_type.items)
      [] data_type.kind = "Map" /\ Len(schema.pattern_properties) > 0 ->
            positions(schema.pattern_properties[1].value, data_type.data_type)
      [] data_type.kind = "Object" /\ Len(data_type.properties) = Len(schema.properties) ->
            UNION {positions(schema.properties[i].value, data_type.properties[i].data_type) :
                      i \in 1..Len(schema.properties)}
      [] OTHER -> {}

\* the schema and the definitions of a file with the DataTypes of its Root; a
\* name that is under $defs and under definitions has the DataType of the latter
root_positions(schema, root) ==
    positions(schema, root.data_type)
    \cup UNION {positions(schema.definitions[i].value,
                          root.definitions[schema.definitions[i].key]) :
                   i \in {j \in 1..Len(schema.definitions) :
                             contains_key(root.definitions, schema.definitions[j].key)}}
    \cup UNION {positions(schema.defs[i].value, root.definitions[schema.defs[i].key]) :
                   i \in {j \in 1..Len(schema.defs) :
                             /\ contains_key(root.definitions, schema.defs[j].key)
                             /\ \A d \in 1..Len(schema.definitions) :
                                   schema.definitions[d].key # schema.defs[j].key}}

\* every schema of every file that has been parsed, with its DataType
SchemaPositions ==
    UNION {root_positions(files[roots[r].file].schema, roots[r]) : r \in 1..Len(roots)}

\* the earliest rule of parse_type that a schema matches
rule(schema) ==
    IF IsSome(schema.ref_) THEN "Ref"
    ELSE IF schema.one_of # <<>> THEN "OneOf"
    ELSE IF schema.any_of # <<>> THEN "AnyOf"
    ELSE IF schema.all_of # <<>> THEN "AllOf"
    ELSE IF IsSome(schema.type_) THEN "type"
    ELSE "Any"

\* the rule a DataType comes from
rule_of(data_type) ==
    IF data_type.kind \in {"PrimitiveType", "Array", "Object", "Map"} THEN "type"
    ELSE data_type.kind

keywords(schema) ==
    {k \in {"Ref", "OneOf", "AnyOf", "AllOf", "type"} :
        \/ k = "Ref" /\ IsSome(schema.ref_)
        \/ k = "OneOf" /\ schema.one_of # <<>>
        \/ k = "AnyOf" /\ schema.any_of # <<>>
        \/ k = "AllOf" /\ schema.all_of # <<>>
        \/ k = "type" /\ IsSome(schema.type_)}

\* C18: every parsed schema has the DataType of the earliest rule it matches
\* in the order $ref, oneOf, anyOf, allOf, type, Any, whatever other keywords
\* it carries; a $ref gives Ref of the reference text and nothing else, a
\* composition one alternative per listed schema.
C18_EarliestRuleOnly ==
    \A p \in SchemaPositions :
        /\ rule_of(p.data_type) = rule(p.schema)
        /\ rule(p.schema) = "Ref" => p.data_type = Ref(Unwrap(p.schema.ref_))
        /\ rule(p.schema) = "OneOf" => Len(p.data_type.types) = Len(p.schema.one_of)
        /\ rule(p.schema) = "AnyOf" => Len(p.data_type.types) = Len(p.schema.any_of)
        /\ rule(p.schema) = "AllOf" => Len(p.data_type.types) = Len(p.schema.all_of)
        /\ rule(p.schema) = "Any" => p.data_type = AnyType

\* C18: a run is over whose file holds a schema with $ref, oneOf and type that
\* was parsed to a Ref, and a schema with oneOf, anyOf, allOf and type that was
\* parsed to a OneOf
C18_Witness ==
    /\ phase = "finished"
    /\ \E p \in SchemaPositions :
          /\ {"Ref", "OneOf", "type"} \subseteq keywords(p.schema)
          /\ p.data_type.kind = "Ref"
    /\ \E p \in SchemaPositions :
          /\ keywords(p.schema) = {"OneOf", "AnyOf", "AllOf", "type"}
          /\ p.data_type.kind = "OneOf"


\* the kind of DataType a schema is parsed to
kind_of(schema) ==
    IF rule(schema) # "type" THEN rule(schema)
    ELSE CASE Unwrap(schema.type_) = "object" ->
                 IF schema.pattern_properties = <<>> /\ schema.properties # <<>>
                 THEN "Object" ELSE "Map"
           [] Unwrap(schema.type_) = "array" -> "Array"
           [] OTHER -> "PrimitiveType"

is_type(schema, type_) == rule(schema) = "type" /\ Unwrap(schema.type_) = type_

\* C19: a schema of type object with patternProperties is parsed to a Map of
\* what the first pattern's schema is parsed to, properties or not; without
\* patternProperties but with properties to an Object of these properties;
\* with neither to Map(Any).  A schema of type array is parsed to an Array of
\* what its items are parsed to, to Array(Any) without items.  A schema with
\* no type, $ref or composition is parsed to Any, properties or not.
C19_ObjectAndArrayRules ==
    \A p \in SchemaPositions :
        /\ is_type(p.schema, "object") /\ p.schema.pattern_properties # <<>> =>
              /\ p.data_type.kind = "Map"
              /\ p.data_type.data_type.kind = kind_of(p.schema.pattern_properties[1].value)
        /\ (/\ is_type(p.schema, "object")
            /\ p.schema.pattern_properties = <<>>
            /\ p.schema.properties # <<>>) =>
              /\ p.data_type.kind = "Object"
              /\ Len(p.data_type.properties) = Len(p.schema.properties)
              /\ \A i \in 1..Len(p.schema.properties) :
                    /\ p.data_type.properties[i].name = p.schema.properties[i].key
                    /\ p.data_type.properties[i].data_type.kind
                          = kind_of(p.schema.properties[i].value)
        /\ (/\ is_type(p.schema, "object")
            /\ p.schema.pattern_properties = <<>>
            /\ p.schema.properties = <<>>) =>
              p.data_type = Map(AnyType)
        /\ is_type(p.schema, "array") /\ IsSome(p.schema.items) =>
              /\ p.data_type.kind = "Array"
              /\ p.data_type.items.kind = kind_of(Unwrap(p.schema.items))
        /\ is_type(p.schema, "array") /\ ~IsSome(p.schema.items) =>
              p.data_type = Array(AnyType)
        /\ rule(p.schema) = "Any" => p.data_type = AnyType

\* C19: a run is over whose file holds an object with two patterns and with
\* properties that was parsed to a Map of the first pattern's Object, a schema
\* with properties and no type that was parsed to Any, an array without items
\* and an object with nothing
C19_Witness ==
    /\ phase = "finished"
    /\ \E p \in SchemaPositions :
          /\ is_type(p.schema, "object")
          /\ Len(p.schema.pattern_properties) = 2
          /\ p.schema.properties # <<>>
          /\ p.data_type.kind = "Map"
          /\ p.data_type.data_type.kind = "Object"
          /\ kind_of(p.schema.pattern_properties[2].value) = "PrimitiveType"
    /\ \E p \in SchemaPositions :
          rule(p.schema) = "Any" /\ p.schema.properties # <<>> /\ p.data_type = AnyType
    /\ \E p \in SchemaPositions :
          is_type(p.schema, "array") /\ p.data_type = Array(AnyType)
    /\ \E p \in SchemaPositions :
          is_type(p.schema, "object") /\ p.data_type = Map(AnyType)


\* the Objects parsed from a schema and from the schemas below it, each with
\* its schema, the composition it is an alternative of (or None) and the name
\* of the property or definition it is the schema of (or None)
RECURSIVE objects_of(_, _, _, _)
objects_of(schema, data_type, composition, property_name) ==
    CASE data_type.kind = "OneOf" /\ Len(data_type.types) = Len(schema.one_of) ->
            UNION {objects_of(schema.one_of[i], data_type.types[i], Some(schema), None) :
                      i \in 1..Len(schema.one_of)}
      [] data_type.kind = "AnyOf" /\ Len(data_type.types) = Len(schema.any_of) ->
            UNION {objects_of(schema.any_of[i], data_type.types[i], Some(schema), None) :
                      i \in 1..Len(schema.any_of)}
      [] data_type.kind = "AllOf" /\ Len(data_type.types) = Len(schema.all_of) ->
            UNION {objects_of(schema.all_of[i], data_type.types[i], Some(schema), None) :
                      i \in 1..Len(schema.all_of)}
      [] data_type.kind = "Array" /\ IsSome(schema.items) ->
            objects_of(Unwrap(schema.items), data_type.items, None, None)
      [] data_type.kind = "Map" /\ Len(schema.pattern_properties) > 0 ->
            objects_of(schema.pattern_properties[1].value, data_type.data_type, None, None)
      [] data_type.kind = "Object" /\ Len(data_type.properties) = Len(schema.properties) ->
            {[schema |-> schema, name |-> data_type.name, position |-> data_type.src,
              properties |-> data_type.properties,
              composition |-> composition, property_name |-> property_name]}
            \cup UNION {objects_of(schema.properties[i].value,
                                   data_type.properties[i].data_type,
                                   None, Some(schema.properties[i].key)) :
                           i \in 1..Len(schema.properties)}
      [] OTHER -> {}

root_objects(schema, root) ==
    objects_of(schema, root.data_type, None, None)
    \cup UNION {objects_of(schema.definitions[i].value,
                           root.definitions[schema.definitions[i].key],
                           None, Some(schema.definitions[i].key)) :
                   i \in {j \in 1..Len(schema.definitions) :
                             contains_key(root.definitions, schema.definitions[j].key)}}
    \cup UNION {objects_of(schema.defs[i].value, root.definitions[schema.defs[i].key],
                           None, Some(schema.defs[i].key)) :
                   i \in {j \in 1..Len(schema.defs) :
                             /\ contains_key(root.definitions, schema.defs[j].key)
                             /\ \A d \in 1..Len(schema.definitions) :
                                   schema.definitions[d].key # schema.defs[j].key}}

\* the Objects of every file that has been parsed
ParsedObjects ==
    UNION {root_objects(files[roots[r].file].schema, roots[r]) : r \in 1..Len(roots)}

has_composition_title(o) == IsSome(o.composition) /\ IsSome(Unwrap(o.composition).title)

listed(required) == IF IsSome(required) THEN {Unwrap(required)[i] : i \in 1..Len(Unwrap(required))}
                    ELSE {}

required_names(o) ==
    listed(o.schema.required)
    \cup (IF IsSome(o.composition) THEN listed(Unwrap(o.composition).required) ELSE {})

\* C21: a property of an Object is required exactly if its name is in the
\* required list of the object's schema or in the required list of the oneOf,
\* anyOf or allOf schema the object is an alternative of; the required list of
\* an enclosing object does not count.
C21_RequiredIsUnionWithComposition ==
    \A o \in ParsedObjects :
        \A i \in 1..Len(o.properties) :
            o.properties[i].required <=> o.properties[i].name \in required_names(o)

\* C21: a run is over whose file holds an alternative with a property that
\* only the composition lists, one that only the alternative lists and one that
\* neither lists, and inside it an object with a property that only the
\* enclosing object lists
C21_Witness ==
    /\ phase = "finished"
    /\ \E o \in ParsedObjects :
          /\ IsSome(o.composition)
          /\ \E i \in 1..Len(o.properties) :
                /\ o.properties[i].name \in listed(Unwrap(o.composition).required)
                /\ o.properties[i].name \notin listed(o.schema.required)
                /\ o.properties[i].required
          /\ \E i \in 1..Len(o.properties) :
                /\ o.properties[i].name \notin listed(Unwrap(o.composition).required)
                /\ o.properties[i].name \in listed(o.schema.required)
                /\ o.properties[i].required
          /\ \E i \in 1..Len(o.properties) :
                /\ o.properties[i].name \notin required_names(o)
                /\ ~o.properties[i].required
          /\ \E nested \in ParsedObjects :
                /\ nested.property_name = Some(N_b)
                /\ \E i \in 1..Len(nested.properties) :
                      /\ nested.properties[i].name \in required_names(o)
                      /\ ~nested.properties[i].required


keys(entries) == {entries[i].key : i \in 1..Len(entries)}

\* the schema of the file a Root was parsed from
schema_of(r) == files[roots[r].file].schema

\* the kinds of DataType the declarations of a name in a schema are parsed to
declared_kinds(schema, name) ==
    {kind_of(schema.definitions[i].value) :
        i \in {j \in 1..Len(schema.definitions) : schema.definitions[j].key = name}}
    \cup {kind_of(schema.defs[i].value) :
             i \in {j \in 1..Len(schema.defs) : schema.defs[j].key = name}}

\* C22: the definitions of a Root are keyed by the names declared under $defs
\* or under definitions in its file, one DataType per name, parsed from a
\* declaration of that name; a reference /definitions/N or /$defs/N gets the
\* DataType kept under N whichever keyword declared N, so two references to N
\* in one file, however written, get the same DataType.
C22_OneNamespaceOfDefinitions ==
    /\ \A r \in 1..Len(roots) :
          /\ DOMAIN roots[r].definitions
                = keys(schema_of(r).defs) \cup keys(schema_of(r).definitions)
          /\ \A name \in DOMAIN roots[r].definitions :
                roots[r].definitions[name].kind \in declared_kinds(schema_of(r), name)
    /\ \A k \in Resolved :
          \A keyword \in {S_definitions, S_defs} :
              is_definition_path(fragment(stack[k].data_type.ref_path), keyword) =>
                  stack[k + 1].data_type
                     = roots[stack[k + 1].root].definitions[
                           SubSeq(fragment(stack[k].data_type.ref_path),
                                  Len(keyword) + 3,
                                  Len(fragment(stack[k].data_type.ref_path)))]
    /\ \A s1, s2 \in ref_sites :
          SameDefinition(s1, s2) /\ IsSome(s1.definition) => s1.data_type = s2.data_type

\* C22: a run is over in which c, declared under both keywords, was referred
\* to as /definitions/c and as /$defs/c with one DataType as the result, and in
\* which b was referred to with the keyword that does not declare it
C22_Witness ==
    /\ phase = "finished"
    /\ N_c \in keys(schema_of(1).defs) \cap keys(schema_of(1).definitions)
    /\ declared_kinds(schema_of(1), N_c) = {"Array", "Object"}
    /\ \E s1, s2 \in ref_sites :
          /\ s1.ref_path = R_c /\ s2.ref_path = R_c_defs
          /\ s1.data_type = s2.data_type
    /\ \E s \in ref_sites :
          \/ s.ref_path = R_b /\ N_b \notin keys(schema_of(1).definitions)
          \/ s.ref_path = R_b_defs /\ N_b \notin keys(schema_of(1).defs)


Compositions == {"OneOf", "AnyOf", "AllOf"}

\* the srcs of the Objects of a DataType that are reached without a reference:
\* through properties, array items, map values and alternatives
RECURSIVE objects_in(_)
objects_in(data_type) ==
    CASE data_type.kind = "Object" ->
            {data_type.src}
            \cup UNION {objects_in(data_type.properties[i].data_type) :
                           i \in 1..Len(data_type.properties)}
      [] data_type.kind = "Array" -> objects_in(data_type.items)
      [] data_type.kind = "Map" -> objects_in(data_type.data_type)
      [] data_type.kind \in Compositions ->
            UNION {objects_in(data_type.types[i]) : i \in 1..Len(data_type.types)}
      [] OTHER -> {}

\* the calls of add_type on a composition that are waiting for an alternative
AlternativeCalls ==
    {k \in 1..(Len(stack) - 1) :
        stack[k].fn = "add_type" /\ stack[k].data_type.kind \in Compositions}

\* every alternative is added by add: no src_override, not required, nothing
\* visited; and when add_type returns from a composition every Object of the
\* alternatives that is reached without a reference has its record
AlternativesRegistered ==
    /\ \A k \in AlternativeCalls :
          /\ stack[k].i \in 1..Len(stack[k].data_type.types)
          /\ stack[k + 1].fn = "add_type"
          /\ stack[k + 1].data_type = stack[k].data_type.types[stack[k].i]
          /\ stack[k + 1].visited_objects = <<>>
          /\ stack[k + 1].src_override = None
          /\ ~stack[k + 1].required
          /\ stack[k + 1].root = stack[k].root
    /\ last.fn = "add_type" /\ last.kind \in Compositions =>
          \A src \in objects_in(last.data_type) :
              /\ contains_key(types, src)
              /\ contains_key(known_type_names, src)
              /\ types[src].payload.name = known_type_names[src]

\* C23 (as stated): add_type returns Value for a composition, and the
\* alternatives are registered as above
C23_CompositionIsValue ==
    /\ last.fn = "add_type" /\ last.kind \in Compositions => last.value = S_Value
    /\ AlternativesRegistered

\* C23 (amended): for a composition add_type returns Value if required and
\* Option<Value> if not; every alternative is added with an empty
\* visited_objects, and when the call returns every Object among the
\* alternatives and below them has its record.
C23_CompositionIsValueOrOption ==
    /\ last.fn = "add_type" /\ last.kind \in Compositions =>
          /\ last.type_name = S_Value
          /\ last.value = IF last.required THEN S_Value
                          ELSE S_Option_open \o S_Value \o S_close
    /\ AlternativesRegistered

\* C23: add_type has returned Option<Value> for a composition that is the type
\* of a property of an object being built and has an Object with an Object
\* inside among its alternatives
C23_Witness ==
    /\ last.fn = "add_type" /\ last.kind \in Compositions
    /\ ~last.required
    /\ last.value = S_Option_open \o S_Value \o S_close
    /\ last.visited_objects # <<>>
    /\ Cardinality(objects_in(last.data_type)) >= 2
    /\ \E i \in 1..Len(last.data_type.types) :
          /\ last.data_type.types[i].kind = "Object"
          /\ Cardinality(objects_in(last.data_type.types[i])) >= 2


\* the three stages of a src
unseen(src) == ~contains_key(known_type_names, src) /\ ~contains_key(types, src)

named(src) == contains_key(known_type_names, src) /\ ~contains_key(types, src)

complete(src) == contains_key(known_type_names, src) /\ contains_key(types, src)

\* a src has a record only if it has a name, and when no call is in progress
\* every src that has a name has its record
NamedOrComplete ==
    /\ DOMAIN types \subseteq DOMAIN known_type_names
    /\ phase \in {"idle", "finished"} => DOMAIN known_type_names = DOMAIN types

\* a step keeps every name and every record; a src gets its name in a step of
\* add_object that takes the next position and has visited no property; a src
\* gets its record in a step of the add_object call that named it, after the
\* last of its properties
ForwardStep ==
    /\ \A src \in DOMAIN known_type_names :
          /\ contains_key(known_type_names', src)
          /\ known_type_names'[src] = known_type_names[src]
    /\ \A src \in DOMAIN types :
          /\ contains_key(types', src)
          /\ types'[src] = types[src]
    /\ \A src \in DOMAIN known_type_names' \ DOMAIN known_type_names :
          /\ ~contains_key(types, src) /\ ~contains_key(types', src)
          /\ Top.fn = "add_object" /\ Top.pc = "start" /\ Top.src = src
          /\ stack'[Len(stack)].pc = "properties"
          /\ stack'[Len(stack)].i = 0
          /\ stack'[Len(stack)].new_properties = <<>>
          /\ stack'[Len(stack)].name = known_type_names'[src]
          /\ stack'[Len(stack)].position = next_position
          /\ next_position' = next_position + 1
    /\ \A src \in DOMAIN types' \ DOMAIN types :
          /\ contains_key(known_type_names, src)
          /\ Top.fn = "add_object" /\ Top.pc = "properties" /\ Top.src = src
          /\ Top.i = Len(Top.data_type.properties)
          /\ Len(types'[src].payload.properties) = Len(Top.data_type.properties)
          /\ types'[src].payload.name = known_type_names[src]
          /\ types'[src].position = Top.position
          /\ Cardinality(DOMAIN types' \ DOMAIN types) = 1

\* C24: a src goes from unseen to named to complete and never back: it gets
\* its name and position when add_object first sees it, before a property is
\* visited, and its record once, after all properties are built; names and
\* records stay as they are; when the top-level call has returned every src
\* that has a name has its record.
C24_ForwardOnly == []NamedOrComplete /\ [][ForwardStep]_vars

\* C24: an add_object call has built one property of a src that has a name
\* and no record yet, while another src has its record
C24_Witness ==
    /\ Running
    /\ \E k \in 1..Len(stack) :
          /\ stack[k].fn = "add_object" /\ stack[k].pc # "start"
          /\ stack[k].i >= 1
          /\ named(stack[k].src)
    /\ \E src \in DOMAIN types : complete(src)


\* the call of add_type on a Ref whose src_override reaches frame k of the
\* stack: frame k itself, or the one below the Array calls that end at frame
\* k; 0 if there is none
RECURSIVE ref_below(_)
ref_below(k) ==
    IF k = 0 \/ stack[k].fn # "add_type" THEN 0
    ELSE IF stack[k].data_type.kind = "Ref" THEN k
    ELSE IF stack[k].data_type.kind = "Array" THEN ref_below(k - 1)
    ELSE 0

\* the src of a reference: the file of the Root it was resolved to, then # and
\* the fragment if the reference has one
src_of_reference(k) ==
    IF fragment(stack[k].data_type.ref_path) = <<>> THEN roots[stack[k + 1].root].file
    ELSE roots[stack[k + 1].root].file \o S_hash \o fragment(stack[k].data_type.ref_path)

ObjectCalls == {k \in 3..Len(stack) : stack[k].fn = "add_object"}

\* add_object gets the src of the reference for an Object that is the target
\* of a reference, or the items of an array that is, and the src the parser
\* gave for every other Object; a record is kept under the key that is its src
SrcOfCalls ==
    /\ \A k \in 1..Len(stack) :
          stack[k].fn = "add_object" =>
              /\ k >= 2
              /\ stack[k - 1].fn = "add_type" /\ stack[k - 1].data_type = stack[k].data_type
              /\ stack[k].src = IF k >= 3 /\ ref_below(k - 2) # 0
                                THEN src_of_reference(ref_below(k - 2))
                                ELSE stack[k].data_type.src
    /\ \A src \in DOMAIN types : types[src].payload.src = src

\* C25 (as stated): an Object reached through a reference is keyed by the
\* file of the resolved Root, # and the fragment, every other Object by the src
\* of the parser, and all references with one text have one src
C25_OneSrcPerReferenceText ==
    /\ SrcOfCalls
    /\ \A s1, s2 \in ref_sites : s1.ref_path = s2.ref_path => s1.src = s2.src

\* C25 (amended): an Object reached through a reference is keyed by the file
\* of the resolved Root, # and the fragment, every other Object by the src of
\* the parser, and the references with one text that are resolved to one file
\* have one src.
C25_OneSrcPerReferenceTextAndFile ==
    /\ SrcOfCalls
    /\ \A s1, s2 \in ref_sites :
          s1.ref_path = s2.ref_path /\ s1.file = s2.file => s1.src = s2.src

\* C25: add_object is building the items of the array that l2.json#/definitions/b
\* or #/definitions/b points at, under the src of that reference, inside an
\* object it builds under the src of the parser; the record of an object that
\* was reached through #/definitions/c is kept under the src of that reference
\* and the record of the object inside it under the src of the parser
C25_Witness ==
    /\ Running
    /\ \E k \in ObjectCalls :
          /\ stack[k].pc # "start"
          /\ stack[k - 2].data_type.kind = "Array"
          /\ ref_below(k - 2) # 0
          /\ fragment(stack[ref_below(k - 2)].data_type.ref_path) # <<>>
          /\ stack[k].src = src_of_reference(ref_below(k - 2))
          /\ stack[k].src # stack[k].data_type.src
          /\ \E j \in 1..(k - 1) :
                /\ stack[j].fn = "add_object"
                /\ stack[j].src = stack[j].data_type.src
    /\ \E s \in ref_sites :
          /\ s.ref_path = R_c
          /\ contains_key(types, s.src)
          /\ s.data_type.kind = "Object"
          /\ s.src # s.data_type.src
          /\ s.data_type.properties[1].data_type.kind = "Object"
          /\ contains_key(types, s.data_type.properties[1].data_type.src)


\* add_object is about to run on a src that has a name and is not among the
\* visited_objects it was given
KnownUnvisited ==
    /\ Running
    /\ Top.fn = "add_object" /\ Top.pc = "start"
    /\ contains_key(known_type_names, Top.src)
    /\ ~contains(Top.visited_objects, Top.src)

\* C26: add_object on a src that has a name and is not among the
\* visited_objects returns that name to its caller and leaves types,
\* known_type_names and next_position as they are.
C26_KnownSrcIsReused ==
    [][KnownUnvisited =>
          /\ ret' = Some(known_type_names[Top.src])
          /\ stack' = SubSeq(stack, 1, Len(stack) - 1)
          /\ types' = types
          /\ known_type_names' = known_type_names
          /\ next_position' = next_position]_vars

\* C26: add_object has returned the name of a src whose record was there
\* already, without a Box, and there are as many names and positions as records
C26_Witness ==
    /\ last.fn = "add_object"
    /\ ~last.created /\ ~last.cycle_detected
    /\ contains_key(types, last.src)
    /\ ret = Some(known_type_names[last.src])
    /\ Cardinality(DOMAIN known_type_names) = Cardinality(DOMAIN types)
    /\ next_position = Cardinality(DOMAIN types)


\* a reference to the file a record was made of: the references # and FILE,
\* for a record whose src is the file FILE of the directory d
refers_to_root(data_type, src) ==
    /\ data_type.kind = "Ref"
    /\ src \in DOMAIN files
    /\ \/ data_type.ref_path = R_root
       \/ join(Unwrap(parent(src)), data_type.ref_path) = src

optional(required, type_name) == IF required THEN type_name ELSE Option(type_name)

\* the Objects add_object has met under the src of their file, with a record
RootRecords ==
    {i \in 1..Len(first_seen) :
        /\ first_seen[i].src \in DOMAIN files
        /\ first_seen[i].src = first_seen[i].object.src
        /\ contains_key(types, first_seen[i].src)}

\* C27: in the record of an object that refers to itself, the property that
\* is an array of the reference has the type Vec<NAME> and the property that is
\* a map of the reference the type BTreeMap<String, NAME>, without Box, while
\* the property that is the reference has the type Box<NAME>; a call of
\* add_object on a src that is being built returns no Box if an Array or Map
\* lies between, and a Box if only properties and references do.
C27_NoBoxThroughArrayOrMap ==
    /\ \A i \in RootRecords :
          \A p \in 1..Len(first_seen[i].object.properties) :
              LET property == first_seen[i].object.properties[p]
                  record == types[first_seen[i].src].payload
                  property_type == record.properties[p].property_type
              IN  /\ /\ property.data_type.kind = "Array"
                     /\ refers_to_root(property.data_type.items, record.src)
                     => property_type
                           = optional(property.required,
                                      S_Vec_open \o record.name \o S_close)
                  /\ /\ property.data_type.kind = "Map"
                     /\ refers_to_root(property.data_type.data_type, record.src)
                     => property_type
                           = optional(property.required,
                                      S_BTreeMap_open \o record.name \o S_close)
                  /\ refers_to_root(property.data_type, record.src)
                     => property_type
                           = optional(property.required,
                                      S_Box_open \o record.name \o S_close)
    /\ last.fn = "add_object" /\ last.src \in last.building =>
          /\ last.through \cap {"Array", "Map"} # {} => last.value = last.name
          /\ last.through \subseteq {"Object", "Ref"} =>
                last.value = S_Box_open \o last.name \o S_close

\* C27: the run is over and the record Unknown of the root has the properties
\* a: Option<Vec<Unknown>>, b: Option<Box<Unknown>> and
\* c: Option<BTreeMap<String, Unknown>>
C27_Witness ==
    /\ phase = "finished"
    /\ \E i \in 1..Len(output) :
          /\ output[i].name = S_Unknown
          /\ Len(output[i].properties) = 3
          /\ output[i].properties[1].property_type
                = Option(S_Vec_open \o S_Unknown \o S_close)
          /\ output[i].properties[2].property_type
                = Option(S_Box_open \o S_Unknown \o S_close)
          /\ output[i].properties[3].property_type
                = Option(S_BTreeMap_open \o S_Unknown \o S_close)


Positions == {types[src].position : src \in DOMAIN types}

\* C28: every src with a record has a name, which is the name of the record;
\* the positions of the records differ from each other and are below
\* next_position; next_position is the number of names; and when no call is
\* in progress the srcs with a record are the srcs with a name and the
\* positions are 0 .. n-1.
C28_TablesAgree ==
    /\ DOMAIN types \subseteq DOMAIN known_type_names
    /\ \A src \in DOMAIN types : types[src].payload.name = known_type_names[src]
    /\ \A src1, src2 \in DOMAIN types :
          types[src1].position = types[src2].position => src1 = src2
    /\ \A src \in DOMAIN types : types[src].position \in 0..(next_position - 1)
    /\ next_position = Cardinality(DOMAIN known_type_names)
    /\ phase \in {"idle", "finished"} =>
          /\ DOMAIN types = DOMAIN known_type_names
          /\ Positions = 0..(Cardinality(DOMAIN types) - 1)

\* C28: add_file has returned with three records or more
C28_Witness ==
    /\ phase = "idle" /\ calls > 0
    /\ Cardinality(DOMAIN types) >= 3
    /\ Positions = 0..(next_position - 1)

\* a record is there while two names wait for theirs, so that the positions
\* have gaps
RecordsUnderway ==
    /\ Running
    /\ Cardinality(DOMAIN types) >= 1
    /\ Cardinality(DOMAIN known_type_names \ DOMAIN types) >= 2
    /\ Positions # 0..(Cardinality(DOMAIN types) - 1)


\* every src among the visited_objects of a call has a name
VisitedAreNamed ==
    \A k \in 1..Len(stack) :
        \A v \in 1..Len(stack[k].visited_objects) :
            contains_key(known_type_names, stack[k].visited_objects[v])

\* no call of add_object that found its src among the visited_objects is in
\* the loop over the properties
NoDescentAfterCycle ==
    \A k \in 1..Len(stack) :
        stack[k].fn = "add_object" /\ stack[k].pc # "start" =>
            /\ ~stack[k].cycle_detected
            /\ ~contains(stack[k].visited_objects, stack[k].src)

\* add_object is about to run on a src that is among its visited_objects
CycleAhead ==
    /\ Running
    /\ Top.fn = "add_object" /\ Top.pc = "start"
    /\ contains(Top.visited_objects, Top.src)

\* C29: every src among the visited_objects given to add_object has a name;
\* so a call that finds its src there takes no position, registers no name and
\* stores no record, and returns Box<NAME> without a step into the properties.
C29_CycleCallsAllocateNothing ==
    /\ [](VisitedAreNamed /\ NoDescentAfterCycle)
    /\ [][CycleAhead =>
             /\ next_position' = next_position
             /\ known_type_names' = known_type_names
             /\ types' = types
             /\ stack' = SubSeq(stack, 1, Len(stack) - 1)
             /\ ret' = Some(S_Box_open \o known_type_names[Top.src] \o S_close)]_vars

\* C29: add_object has found its src among two or more visited_objects and
\* has returned a Box
C29_Witness ==
    /\ last.fn = "add_object"
    /\ last.cycle_detected /\ ~last.created
    /\ Len(last.visited_objects) >= 2
    /\ ret = Some(S_Box_open \o last.name \o S_close)


\* the srcs of the Objects that are reached from a DataType of the Root r
\* through properties, array items, map values, alternatives and references,
\* an Object under the src of the reference that led to it (or to the array
\* it is the items of); heap and resolver_cache are the Roots loaded on the
\* way, seen are the srcs on the way, fuel bounds the way
RECURSIVE reachable(_, _, _, _, _, _, _)
RECURSIVE reachable_target(_, _, _)
reachable(heap, resolver_cache, r, data_type, src_override, seen, fuel) ==
    IF fuel = 0 THEN {}
    ELSE CASE data_type.kind = "Object" ->
                 IF (IF IsSome(src_override) THEN Unwrap(src_override) ELSE data_type.src)
                       \in seen
                 THEN {}
                 ELSE {IF IsSome(src_override) THEN Unwrap(src_override) ELSE data_type.src}
                      \cup UNION {reachable(heap, resolver_cache, r,
                                            data_type.properties[i].data_type, None,
                                            seen \cup {IF IsSome(src_override)
                                                       THEN Unwrap(src_override)
                                                       ELSE data_type.src},
                                            fuel - 1) :
                                     i \in 1..Len(data_type.properties)}
           [] data_type.kind = "Array" ->
                 reachable(heap, resolver_cache, r, data_type.items, src_override, seen,
                           fuel - 1)
           [] data_type.kind = "Map" ->
                 reachable(heap, resolver_cache, r, data_type.data_type, None, seen,
                           fuel - 1)
           [] data_type.kind \in Compositions ->
                 UNION {reachable(heap, resolver_cache, r, data_type.types[i], None, seen,
                                  fuel - 1) :
                           i \in 1..Len(data_type.types)}
           [] data_type.kind = "Ref" ->
                 reachable_target(resolve(files, heap, resolver_cache, r,
                                          data_type.ref_path),
                                  seen, fuel - 1)
           [] OTHER -> {}

reachable_target(resolved, seen, fuel) ==
    IF ~resolved.ok THEN {}
    ELSE reachable(resolved.heap, resolved.cache, resolved.root, resolved.data_type,
                   Some(IF IsSome(resolved.path)
                        THEN resolved.heap[resolved.root].file \o S_hash
                                \o Unwrap(resolved.path)
                        ELSE resolved.heap[resolved.root].file),
                   seen, fuel)

\* the srcs reached from the root data types of the files given to add_file
Reachable ==
    UNION {reachable(roots, cache, r, roots[r].data_type, None, {}, MaxDepth) :
              r \in EntryRoots}

\* the definitions no reference has led to
Unreferenced ==
    {d \in UNION {{[root |-> r, name |-> name] : name \in DOMAIN roots[r].definitions} :
                     r \in 1..Len(roots)} :
        \A s \in ref_sites : ~(s.file = roots[d.root].file /\ s.definition = Some(d.name))}

\* C30: when add_file has returned, the srcs with a record, the srcs with a
\* name and the positions taken are those of the Objects reached from the root
\* data type of the entry file through properties, array items, map values,
\* alternatives and resolved references; an Object of a definition that no
\* reference has led to has neither record nor name.
C30_RecordsAreTheReachableObjects ==
    phase \in {"idle", "finished"} /\ calls > 0 =>
        /\ DOMAIN types = Reachable
        /\ DOMAIN known_type_names = Reachable
        /\ next_position = Cardinality(Reachable)
        /\ \A d \in Unreferenced :
              \A keyword \in {S_definitions, S_defs} :
                  /\ unseen(roots[d.root].file \o S_hash \o S_slash \o keyword
                               \o S_slash \o d.name)
                  /\ \A src \in objects_in(roots[d.root].definitions[d.name]) : unseen(src)

\* C30: the run is over; a definition with an Object that no reference has
\* led to has no record, and there are records of Objects reached through a
\* reference into another file, through array items and through properties
C30_Witness ==
    /\ phase = "finished"
    /\ \E d \in Unreferenced : objects_in(roots[d.root].definitions[d.name]) # {}
    /\ \E s \in ref_sites : s.file # roots[1].file /\ contains_key(types, s.src)
    /\ \E s \in ref_sites : s.data_type.kind = "Array" /\ contains_key(types, s.src)
    /\ Cardinality(DOMAIN types) >= 4

=============================================================================
